---- MODULE Spec2Model ----
(***************************************************************************)
(* Triagem-Hospitalar-Inteligente: the rule-based triage agent             *)
(* (src/src/agents/triage_agent.py), alone and called by several callers   *)
(* at once, the patient record with its severity score and                 *)
(* recommendations (src/src/models/person.py), and the learned classifier  *)
(* (src/src/ml/models.py), the record stores and the emergency service     *)
(* over them (src/src/models/person_dao.py), and the generator of          *)
(* synthetic training data (src/src/utils/data_generator.py).              *)
(*                                                                         *)
(* Numbers.  Pressures, heart rate, saturation and age are integers.       *)
(* Temperatures are in tenths of a degree (39.5 C is 395).  Confidences    *)
(* are in thousandths (0.675 is 675).  String literals drop the accents of *)
(* the source ("Emergencia" for "Emergência").                             *)
(***************************************************************************)
EXTENDS Integers, Sequences, FiniteSets, TLC

VARIABLES
    agent,          \* TriageAgent fields: model, is_trained
    call,           \* entry point in progress: "none", "process_patient", "reason", "act"
    pc,             \* position of the call: "idle", "perceiving", "deciding", "acting", "done"
    patient_data,   \* argument of process_patient
    features,       \* argument of reason (result of perceive)
    risk_score,     \* local of reason when it leaves its try block normally
    triage_result,  \* result of reason / argument of act
    action,         \* result of act / process_patient
    branches,       \* except branches taken during the call
    vs_args,        \* arguments of the last VitalSigns(...) construction
    vs_out,         \* its outcome: the object, or the error raised
    person_args,    \* arguments of the last Person(...) construction
    person,         \* its outcome: the object, or the error raised
    score,          \* result of the last calculate_risk_score call
    recs,           \* result of the last get_recommendations call
    agents,         \* the fields of every TriageAgent instance
    c_pc,           \* per caller: position of its process_patient call
    c_patient_data, \* per caller: the record it passed
    frames,         \* per call frame: the locals features and triage_result
    c_action,       \* per caller: the dict its call returned
    c_stages,       \* per caller: the stages its call has finished, in order
    ml,             \* TriageMLModel fields: model_type, is_trained
    ml_X,           \* argument of the last predict call: its number of rows
    ml_out,         \* what predict returned or raised
    heap,           \* the Person objects that exist, by id
    dao_data,       \* InMemoryPersonDAO._data: the ids stored, in insertion order
    file,           \* the JSON file of FilePersonDAO: its dicts, in insertion order
    svc,            \* the last service or DAO call and what it returned
    t_pc,           \* per thread: position of its FilePersonDAO.save call
    t_data,         \* per thread: the local data of its save call
    t_ret,          \* per thread: what its save call returned
    df              \* what generate_synthetic_data returned or raised

agentVars  == <<agent, call, pc, patient_data, features, risk_score,
                triage_result, action, branches>>
personVars == <<vs_args, vs_out, person_args, person, score, recs>>
callerVars == <<agents, c_pc, c_patient_data, frames, c_action, c_stages>>
mlVars     == <<ml, ml_X, ml_out>>
serviceVars == <<heap, dao_data, file, svc>>
threadVars  == <<t_pc, t_data, t_ret>>
storeVars   == <<serviceVars, threadVars, df>>
vars       == <<agentVars, personVars, callerVars, mlVars, storeVars>>

(***************************************************************************)
(* Values                                                                  *)
(***************************************************************************)

\* A numeric field holds <<n>>; a field holding None (or any value that does
\* not compare with a number) holds <<>>.  Comparing it raises TypeError.
None     == <<>>
Num(n)   == <<n>>
IsNum(v) == v # None
Val(v)   == v[1]

\* RiskLevel: member names.
RiskLevel == {"VERMELHO", "AMARELO", "VERDE"}

\* RiskLevel.<name>.value
RiskLevelValue(name) ==
    CASE name = "VERMELHO" -> "Emergencia"
      [] name = "AMARELO"  -> "Urgente"
      [] name = "VERDE"    -> "Nao Urgente"

\* An argument that is not a PatientData (demo.py passes a dict): it has none
\* of the attributes perceive reads.
NotAPatientData == [kind |-> "dict"]

\* The empty dict perceive returns from its except branch.
EmptyDict == [k \in {} |-> 0]

NoValue == [kind |-> "unset"]

(***************************************************************************)
(* Callers of process_patient                                              *)
(***************************************************************************)

\* Bound: how many callers (threads, requests) call process_patient.
MaxCallers == 3
Callers    == 1..MaxCallers

\* The TriageAgent instances: the module-level one of web/app.py, shared by
\* every request, and one a caller constructed for itself.
Agents == {"triage_agent", "own"}

\* The instance caller c calls: the even callers bring their own.
AgentOf(c) == IF c % 2 = 0 THEN "own" ELSE "triage_agent"

\* Mutant of Frame: the locals kept in one place all calls share.
FrameShared(c) == 1

\* features, triage_result and action are locals of process_patient
\* (lines 245-251): each call has its own frame.
Frame(c) == c

(***************************************************************************)
(* TriageAgent                                                             *)
(***************************************************************************)

\* TriageAgent.__init__
AgentInit == [model |-> "None", is_trained |-> FALSE]

\* bool -> 1 / 0, as in "1 if patient_data.dor_peito else 0"
Flag(b) == IF b THEN 1 ELSE 0

\* TriageAgent.perceive: the feature dict, or {} from the except branch when
\* reading an attribute of the argument raises.
PerceiveRaises(p) == "pressao_sistolica" \notin DOMAIN p

\* Mutant of perceive: sexo_M set for every sex but 'F'.
perceiveNotF(p) ==
    IF PerceiveRaises(p)
    THEN EmptyDict
    ELSE [pressao_sistolica        |-> p.pressao_sistolica,
          pressao_diastolica       |-> p.pressao_diastolica,
          frequencia_cardiaca      |-> p.frequencia_cardiaca,
          saturacao_oxigenio       |-> p.saturacao_oxigenio,
          temperatura              |-> p.temperatura,
          idade                    |-> p.idade,
          sexo_M                   |-> IF p.sexo # "F" THEN 1 ELSE 0,
          dor_peito                |-> Flag(p.dor_peito),
          dificuldade_respiratoria |-> Flag(p.dificuldade_respiratoria),
          febre                    |-> Flag(p.febre),
          tontura                  |-> Flag(p.tontura),
          vomito                   |-> Flag(p.vomito),
          dor_abdominal            |-> Flag(p.dor_abdominal)]

perceive(p) ==
    IF PerceiveRaises(p)
    THEN EmptyDict
    ELSE [pressao_sistolica        |-> p.pressao_sistolica,
          pressao_diastolica       |-> p.pressao_diastolica,
          frequencia_cardiaca      |-> p.frequencia_cardiaca,
          saturacao_oxigenio       |-> p.saturacao_oxigenio,
          temperatura              |-> p.temperatura,
          idade                    |-> p.idade,
          sexo_M                   |-> IF p.sexo = "M" THEN 1 ELSE 0,
          dor_peito                |-> Flag(p.dor_peito),
          dificuldade_respiratoria |-> Flag(p.dificuldade_respiratoria),
          febre                    |-> Flag(p.febre),
          tontura                  |-> Flag(p.tontura),
          vomito                   |-> Flag(p.vomito),
          dor_abdominal            |-> Flag(p.dor_abdominal)]

\* features[k] raises KeyError when k is missing; comparing a value that is not
\* a number raises TypeError.
Unusable(f, k) == k \notin DOMAIN f \/ ~IsNum(f[k])

\* The try block of reason raises.  "features['dor_peito'] and
\* features['idade'] > 50" reads idade only when dor_peito is truthy.
ReasonRaises(f) ==
    \/ Unusable(f, "pressao_sistolica")
    \/ Unusable(f, "frequencia_cardiaca")
    \/ Unusable(f, "saturacao_oxigenio")
    \/ Unusable(f, "temperatura")
    \/ "dor_peito" \notin DOMAIN f
    \/ (f["dor_peito"] # 0 /\ Unusable(f, "idade"))
    \/ "dificuldade_respiratoria" \notin DOMAIN f

\* Mutant of Rules: the upper pressure bound compared with >= instead of >.
RulesInclusive(f) ==
    << <<Val(f["pressao_sistolica"]) >= 180 \/ Val(f["pressao_sistolica"]) < 90,
         3, "Pressao arterial critica">>,
       <<Val(f["frequencia_cardiaca"]) > 120 \/ Val(f["frequencia_cardiaca"]) < 50,
         3, "Frequencia cardiaca alterada">>,
       <<Val(f["saturacao_oxigenio"]) < 90,
         4, "Saturacao de oxigenio baixa">>,
       <<Val(f["temperatura"]) > 395,
         2, "Febre alta">>,
       <<f["dor_peito"] # 0 /\ Val(f["idade"]) > 50,
         4, "Dor no peito em paciente > 50 anos">>,
       <<f["dificuldade_respiratoria"] # 0,
         3, "Dificuldade respiratoria">> >>

\* The six rules of reason, in source order: <<condition, points, factor>>.
Rules(f) ==
    << <<Val(f["pressao_sistolica"]) > 180 \/ Val(f["pressao_sistolica"]) < 90,
         3, "Pressao arterial critica">>,
       <<Val(f["frequencia_cardiaca"]) > 120 \/ Val(f["frequencia_cardiaca"]) < 50,
         3, "Frequencia cardiaca alterada">>,
       <<Val(f["saturacao_oxigenio"]) < 90,
         4, "Saturacao de oxigenio baixa">>,
       <<Val(f["temperatura"]) > 395,
         2, "Febre alta">>,
       <<f["dor_peito"] # 0 /\ Val(f["idade"]) > 50,
         4, "Dor no peito em paciente > 50 anos">>,
       <<f["dificuldade_respiratoria"] # 0,
         3, "Dificuldade respiratoria">> >>

RECURSIVE SumRules(_, _)
SumRules(rs, i) ==
    IF i > Len(rs) THEN 0
    ELSE (IF rs[i][1] THEN rs[i][2] ELSE 0) + SumRules(rs, i + 1)

\* Mutant of FactorsOf: each factor inserted at the front of the list.
RECURSIVE FactorsOfReversed(_, _)
FactorsOfReversed(rs, i) ==
    IF i > Len(rs) THEN <<>>
    ELSE FactorsOfReversed(rs, i + 1) \o (IF rs[i][1] THEN <<rs[i][3]>> ELSE <<>>)

RECURSIVE FactorsOf(_, _)
FactorsOf(rs, i) ==
    IF i > Len(rs) THEN <<>>
    ELSE (IF rs[i][1] THEN <<rs[i][3]>> ELSE <<>>) \o FactorsOf(rs, i + 1)

\* risk_score at line 132
RiskScore(f) == SumRules(Rules(f), 1)

\* Mutant of ReasoningFactors: the list kept between calls instead of
\* starting empty, so the factors of an earlier call stay in it.
ReasoningFactorsKept(f) ==
    LET earlier == {c \in Callers : /\ c_pc[c] \in {"acting", "done"}
                                    /\ ~ReasonRaises(frames[Frame(c)].features)}
    IN  (IF earlier = {} THEN <<>>
         ELSE FactorsOf(Rules(frames[Frame(CHOOSE c \in earlier : TRUE)].features), 1))
        \o FactorsOf(Rules(f), 1)

\* reasoning_factors at line 132: a list that starts empty in every call
\* (line 105)
ReasoningFactors(f) == FactorsOf(Rules(f), 1)

Min(a, b) == IF a <= b THEN a ELSE b

\* Mutant of LevelOf: the emergency threshold compared with > instead of >=.
LevelOfStrict(s) ==
    IF s > 7 THEN "VERMELHO"
    ELSE IF s >= 3 THEN "AMARELO"
    ELSE "VERDE"

\* lines 133-141: the level of a score
LevelOf(s) ==
    IF s >= 7 THEN "VERMELHO"
    ELSE IF s >= 3 THEN "AMARELO"
    ELSE "VERDE"

\* Mutant of ConfidenceOf: the caps left out.
ConfidenceUncapped(s) ==
    IF s >= 7 THEN 700 + (s - 7) * 50
    ELSE IF s >= 3 THEN 600 + (s - 3) * 75
    ELSE 500 + s * 100

\* Mutant of ConfidenceOf: the Urgent slope copied from the Emergency line.
ConfidenceSameSlope(s) ==
    IF s >= 7 THEN Min(950, 700 + (s - 7) * 50)
    ELSE IF s >= 3 THEN Min(900, 600 + (s - 3) * 50)
    ELSE Min(850, 500 + s * 100)

\* Mutant of ConfidenceOf: the Emergency slope subtracted instead of added.
ConfidenceFalling(s) ==
    IF s >= 7 THEN Min(950, 700 - (s - 7) * 50)
    ELSE IF s >= 3 THEN Min(900, 600 + (s - 3) * 75)
    ELSE Min(850, 500 + s * 100)

\* lines 133-141: the confidence of a score, in thousandths
ConfidenceOf(s) ==
    IF s >= 7 THEN Min(950, 700 + (s - 7) * 50)
    ELSE IF s >= 3 THEN Min(900, 600 + (s - 3) * 75)
    ELSE Min(850, 500 + s * 100)

\* Mutant of GenerateRecommendations: an ECG added when the chest-pain factor
\* is among the factors.
RECURSIVE Contains(_, _)
Contains(xs, x) ==
    IF xs = <<>> THEN FALSE ELSE Head(xs) = x \/ Contains(Tail(xs), x)

GenerateRecommendationsByFactor(risk_level, factors) ==
    (IF risk_level = "VERMELHO"
     THEN <<"Atendimento medico IMEDIATO", "Preparar sala de emergencia",
            "Monitorizacao continua", "Acesso venoso imediato">>
     ELSE IF risk_level = "AMARELO"
     THEN <<"Atendimento em ate 1 hora", "Reavaliacao em 30 minutos",
            "Monitorizacao periodica">>
     ELSE <<"Atendimento em ate 4 horas", "Orientacoes gerais",
            "Reavaliacao se piora">>)
    \o (IF Contains(factors, "Dor no peito em paciente > 50 anos")
        THEN <<"ECG imediato">> ELSE <<>>)

\* TriageAgent._generate_recommendations (factors is not read)
GenerateRecommendations(risk_level, factors) ==
    IF risk_level = "VERMELHO"
    THEN <<"Atendimento medico IMEDIATO", "Preparar sala de emergencia",
           "Monitorizacao continua", "Acesso venoso imediato">>
    ELSE IF risk_level = "AMARELO"
    THEN <<"Atendimento em ate 1 hora", "Reavaliacao em 30 minutos",
           "Monitorizacao periodica">>
    ELSE <<"Atendimento em ate 4 horas", "Orientacoes gerais",
           "Reavaliacao se piora">>

\* "; ".join(xs)
RECURSIVE Join(_, _)
Join(sep, xs) ==
    IF xs = <<>> THEN ""
    ELSE IF Len(xs) = 1 THEN xs[1]
    ELSE xs[1] \o sep \o Join(sep, Tail(xs))

\* Mutant of ReasonExcept: the fallback fails open.
ReasonExceptFailOpen ==
    [risk_level       |-> "VERDE",
     confidence_score |-> 500,
     reasoning        |-> "Erro na avaliacao - requer avaliacao medica",
     recommendations  |-> <<"Consulta medica imediata">>]

\* The except branch of reason (lines 153-160)
ReasonExcept ==
    [risk_level       |-> "AMARELO",
     confidence_score |-> 500,
     reasoning        |-> "Erro na avaliacao - requer avaliacao medica",
     recommendations  |-> <<"Consulta medica imediata">>]

\* Mutant of reason: an agent without a trained model always answers with the
\* fail-safe.
reasonNeedsModel(f) == ReasonExcept

\* TriageAgent.reason
reason(f) ==
    IF ReasonRaises(f)
    THEN ReasonExcept
    ELSE LET s  == RiskScore(f)
             fs == ReasoningFactors(f)
         IN  [risk_level       |-> LevelOf(s),
              confidence_score |-> ConfidenceOf(s),
              reasoning        |-> IF fs # <<>> THEN Join("; ", fs)
                                   ELSE "Sinais vitais estaveis",
              recommendations  |-> GenerateRecommendations(LevelOf(s), fs)]

\* round(x, 2) on thousandths.  The only confidences with a third decimal are
\* 0.6 + 0.075 and 0.6 + 3 * 0.075, which as binary floats are
\* 0.67499... and 0.82499..., so round() gives 0.67 and 0.82: halves go down.
Round2(c) == ((c + 4) \div 10) * 10

\* The try block of act raises: triage_result.risk_level.value needs a
\* TriageResult whose risk_level is a RiskLevel member.
ActRaises(tr) ==
    \/ "risk_level" \notin DOMAIN tr
    \/ tr.risk_level \notin RiskLevel

\* The except branch of act (lines 205-214)
ActExcept(now) ==
    [classification  |-> "Erro",
     risk_color      |-> "AMARELO",
     confidence      |-> 0,
     reasoning       |-> "Erro no sistema",
     recommendations |-> <<"Avaliacao medica manual">>,
     timestamp       |-> now]

\* TriageAgent.act; now is pd.Timestamp.now()
act(tr, now) ==
    IF ActRaises(tr)
    THEN ActExcept(now)
    ELSE [classification  |-> RiskLevelValue(tr.risk_level),
          risk_color      |-> tr.risk_level,
          confidence      |-> Round2(tr.confidence_score),
          reasoning       |-> tr.reasoning,
          recommendations |-> tr.recommendations,
          timestamp       |-> now]

\* The except branch of process_patient (lines 255-264); e is str(e)
ProcessPatientExcept(e, now) ==
    [classification  |-> "Erro",
     risk_color      |-> "AMARELO",
     confidence      |-> 0,
     reasoning       |-> "Erro no sistema: " \o e,
     recommendations |-> <<"Avaliacao medica manual imediata">>,
     timestamp       |-> now]


\* Mutant of ReasonEscapes: reason without its except clause.
ReasonRethrows(f) == ReasonRaises(f)

\* Mutant of PerceiveEscapes: perceive without its except clause.
PerceiveRethrows(p) == PerceiveRaises(p)

\* perceive, reason and act each wrap their whole body in try / except
\* Exception and return from the handler (lines 92, 153, 205): no exception
\* leaves them, whatever the argument.
PerceiveEscapes(p) == FALSE
ReasonEscapes(f)   == FALSE
ActEscapes(tr)     == FALSE

(***************************************************************************)
(* Inputs of the agent                                                     *)
(***************************************************************************)

\* Bound: pd.Timestamp.now() returns one of 0..MaxTimestamp.
MaxTimestamp == 1
Timestamps   == 0..MaxTimestamp

\* Bound: how many of febre, tontura, vomito, dor_abdominal a record has set.
MaxOtherSymptoms == 1
OtherSymptoms    == {"febre", "tontura", "vomito", "dor_abdominal"}
OtherSymptomSets == {S \in SUBSET OtherSymptoms : Cardinality(S) <= MaxOtherSymptoms}

\* Both sides of every threshold of reason; 130 (age) and 200 (diastolic) are
\* outside the physiological ranges; None is a field that holds no number.
SistolicaValues   == {Num(89), Num(90), Num(180), Num(181)}
DiastolicaValues  == {Num(80), Num(200)}
CardiacaValues    == {Num(49), Num(50), Num(120), Num(121)}
SaturacaoValues   == {Num(89), Num(90)}
TemperaturaValues == {Num(395), Num(396)}
IdadeValues       == {Num(50), Num(51), Num(130), None}
SexoValues        == {"M", "F", "O"}

PatientData(ps, pdia, fc, sat, temp, idade, sexo, dp, dr, others) ==
    [pressao_sistolica        |-> ps,
     pressao_diastolica       |-> pdia,
     frequencia_cardiaca      |-> fc,
     saturacao_oxigenio       |-> sat,
     temperatura              |-> temp,
     idade                    |-> idade,
     sexo                     |-> sexo,
     dor_peito                |-> dp,
     dificuldade_respiratoria |-> dr,
     febre                    |-> "febre" \in others,
     tontura                  |-> "tontura" \in others,
     vomito                   |-> "vomito" \in others,
     dor_abdominal            |-> "dor_abdominal" \in others]

\* What a caller passes to process_patient: any PatientData (the dataclass
\* checks nothing), or an object that is no PatientData.
PatientInputs ==
    { PatientData(ps, pdia, fc, sat, temp, idade, sexo, dp, dr, others) :
        ps \in SistolicaValues, pdia \in DiastolicaValues, fc \in CardiacaValues,
        sat \in SaturacaoValues, temp \in TemperaturaValues, idade \in IdadeValues,
        sexo \in SexoValues, dp \in BOOLEAN, dr \in BOOLEAN,
        others \in OtherSymptomSets }
    \cup {NotAPatientData}

\* Feature dicts passed to reason directly (tests/test_system.py does so):
\* the test's two dicts, the empty dict, and a dict with no 'idade'.
TestNormalFeatures ==
    [pressao_sistolica |-> Num(120), pressao_diastolica |-> Num(80),
     frequencia_cardiaca |-> Num(70), saturacao_oxigenio |-> Num(98),
     temperatura |-> Num(365), idade |-> Num(35), sexo_M |-> 1,
     dor_peito |-> 0, dificuldade_respiratoria |-> 0, febre |-> 0,
     tontura |-> 0, vomito |-> 0, dor_abdominal |-> 0]

TestEmergencyFeatures ==
    [pressao_sistolica |-> Num(200), pressao_diastolica |-> Num(120),
     frequencia_cardiaca |-> Num(140), saturacao_oxigenio |-> Num(85),
     temperatura |-> Num(400), idade |-> Num(70), sexo_M |-> 1,
     dor_peito |-> 1, dificuldade_respiratoria |-> 1, febre |-> 1,
     tontura |-> 1, vomito |-> 1, dor_abdominal |-> 0]

NoIdadeFeatures(dp) ==
    [pressao_sistolica |-> Num(120), frequencia_cardiaca |-> Num(70),
     saturacao_oxigenio |-> Num(98), temperatura |-> Num(365),
     dor_peito |-> dp, dificuldade_respiratoria |-> 0]

\* The third dict is the test's normal one with chest pain at age 51 and
\* breathing difficulty: 4 + 3 points from the symptoms alone.
FeatureInputs ==
    {TestNormalFeatures, TestEmergencyFeatures,
     [TestNormalFeatures EXCEPT !.idade = Num(51), !.dor_peito = 1,
                                !.dificuldade_respiratoria = 1],
     EmptyDict, NoIdadeFeatures(0), NoIdadeFeatures(1)}

\* Arguments passed to act directly: results of reason, None, and a
\* TriageResult whose risk_level is a plain string and no RiskLevel member.
ActInputs ==
    {reason(f) : f \in FeatureInputs}
    \cup {NoValue, [ReasonExcept EXCEPT !.risk_level = "Urgente"]}

(***************************************************************************)
(* Actions of the agent                                                    *)
(***************************************************************************)

Branch(taken, name) == IF taken THEN {name} ELSE {}

\* A caller invokes process_patient(p).
ProcessPatientCall(p) ==
    /\ call' = "process_patient"
    /\ pc' = "perceiving"
    /\ patient_data' = p
    /\ features' = NoValue
    /\ risk_score' = None
    /\ triage_result' = NoValue
    /\ action' = NoValue
    /\ branches' = {}
    /\ UNCHANGED <<agent, personVars, callerVars, mlVars, storeVars>>

\* process_patient reached its own handler from a stage that let an
\* exception out.
ProcessPatientHandler(e) ==
    /\ \E now \in Timestamps : action' = ProcessPatientExcept(e, now)
    /\ branches' = branches \cup {"process_patient"}
    /\ pc' = "done"

\* process_patient line 245: features = self.perceive(patient_data)
Perceiving ==
    /\ call = "process_patient"
    /\ pc = "perceiving"
    /\ IF PerceiveEscapes(patient_data)
       THEN /\ ProcessPatientHandler("perceive")
            /\ UNCHANGED <<features, risk_score, triage_result>>
       ELSE /\ features' = perceive(patient_data)
            /\ branches' = branches \cup Branch(PerceiveRaises(patient_data), "perceive")
            /\ pc' = "deciding"
            /\ UNCHANGED <<risk_score, triage_result, action>>
    /\ UNCHANGED <<agent, call, patient_data, personVars, callerVars, mlVars, storeVars>>

\* process_patient line 248: triage_result = self.reason(features)
Deciding ==
    /\ call = "process_patient"
    /\ pc = "deciding"
    /\ IF ReasonEscapes(features)
       THEN /\ ProcessPatientHandler("reason")
            /\ UNCHANGED <<risk_score, triage_result>>
       ELSE /\ triage_result' = reason(features)
            /\ risk_score' = IF ReasonRaises(features) THEN None
                             ELSE Num(RiskScore(features))
            /\ branches' = branches \cup Branch(ReasonRaises(features), "reason")
            /\ pc' = "acting"
            /\ UNCHANGED action
    /\ UNCHANGED <<agent, call, patient_data, features, personVars, callerVars, mlVars, storeVars>>

\* process_patient lines 251-253: action = self.act(triage_result); return
Acting ==
    /\ call = "process_patient"
    /\ pc = "acting"
    /\ IF ActEscapes(triage_result)
       THEN ProcessPatientHandler("act")
       ELSE /\ \E now \in Timestamps : action' = act(triage_result, now)
            /\ branches' = branches \cup Branch(ActRaises(triage_result), "act")
            /\ pc' = "done"
    /\ UNCHANGED <<agent, call, patient_data, features, risk_score, triage_result,
                   personVars, callerVars, mlVars, storeVars>>

\* A caller invokes reason(f) directly.
ReasonCall(f) ==
    /\ ~ReasonEscapes(f)
    /\ call' = "reason"
    /\ pc' = "done"
    /\ patient_data' = NoValue
    /\ features' = f
    /\ risk_score' = IF ReasonRaises(f) THEN None ELSE Num(RiskScore(f))
    /\ triage_result' = reason(f)
    /\ action' = NoValue
    /\ branches' = Branch(ReasonRaises(f), "reason")
    /\ UNCHANGED <<agent, personVars, callerVars, mlVars, storeVars>>

\* A caller invokes act(tr) directly.
ActCall(tr) ==
    /\ ~ActEscapes(tr)
    /\ call' = "act"
    /\ pc' = "done"
    /\ patient_data' = NoValue
    /\ features' = NoValue
    /\ risk_score' = None
    /\ triage_result' = tr
    /\ \E now \in Timestamps : action' = act(tr, now)
    /\ branches' = Branch(ActRaises(tr), "act")
    /\ UNCHANGED <<agent, personVars, callerVars, mlVars, storeVars>>

AgentStart ==
    /\ agent = AgentInit
    /\ call = "none"
    /\ pc = "idle"
    /\ patient_data = NoValue
    /\ features = NoValue
    /\ risk_score = None
    /\ triage_result = NoValue
    /\ action = NoValue
    /\ branches = {}

\* One call per behaviour: the agent keeps nothing between calls (its fields
\* are written in __init__ only), so a call starts from the state after
\* construction.
ProcessPatientEntry == pc = "idle" /\ \E p \in PatientInputs : ProcessPatientCall(p)
ReasonEntry         == pc = "idle" /\ \E f \in FeatureInputs : ReasonCall(f)
ActEntry            == pc = "idle" /\ \E tr \in ActInputs : ActCall(tr)

\* The records of PatientInputs that decide which stages fail: every
\* systolic value and age (None makes reason raise when chest pain is set),
\* chest pain and breathing difficulty, and the object perceive cannot read.
StageInputs ==
    { PatientData(ps, Num(80), Num(70), Num(98), Num(365), idade, "F", dp, dr, {}) :
        ps \in SistolicaValues, idade \in IdadeValues,
        dp \in BOOLEAN, dr \in BOOLEAN }
    \cup {NotAPatientData}

StagesEntry == pc = "idle" /\ \E p \in StageInputs : ProcessPatientCall(p)

NextStages ==
    \/ StagesEntry
    \/ Perceiving
    \/ Deciding
    \/ Acting

Next ==
    \/ ProcessPatientEntry
    \/ Perceiving
    \/ Deciding
    \/ Acting
    \/ ReasonEntry
    \/ ActEntry

(***************************************************************************)
(* Several callers of process_patient, their steps interleaved             *)
(***************************************************************************)

\* The stable and the critical patient of demo.py
PacienteVerde ==
    PatientData(Num(120), Num(80), Num(72), Num(98), Num(365), Num(35), "M",
                FALSE, FALSE, {})

PacienteVermelho ==
    PatientData(Num(200), Num(120), Num(140), Num(85), Num(400), Num(70), "F",
                TRUE, TRUE, {"febre", "tontura", "vomito"})

\* What the callers pass: the two patients, and an object perceive cannot
\* read (reason then raises on the empty feature dict).
CallerInputs == {PacienteVerde, PacienteVermelho, NotAPatientData}

NoLocals == [features |-> NoValue, triage_result |-> NoValue]

\* Caller c invokes AgentOf(c).process_patient(p).
CallerCall(c, p) ==
    /\ c_pc[c] = "idle"
    /\ c_pc' = [c_pc EXCEPT ![c] = "perceiving"]
    /\ c_patient_data' = [c_patient_data EXCEPT ![c] = p]
    /\ UNCHANGED <<agents, frames, c_action, c_stages>>
    /\ UNCHANGED <<agentVars, personVars, mlVars, storeVars>>

\* The except branch of process_patient in the call of caller c.
CallerHandler(c, e) ==
    /\ \E now \in Timestamps :
           c_action' = [c_action EXCEPT ![c] = ProcessPatientExcept(e, now)]
    /\ c_pc' = [c_pc EXCEPT ![c] = "done"]
    /\ UNCHANGED <<frames, c_stages>>

\* line 245 in the call of caller c
CallerPerceiving(c) ==
    /\ c_pc[c] = "perceiving"
    /\ IF PerceiveEscapes(c_patient_data[c])
       THEN CallerHandler(c, "perceive")
       ELSE /\ frames' = [frames EXCEPT ![Frame(c)].features =
                                            perceive(c_patient_data[c])]
            /\ c_pc' = [c_pc EXCEPT ![c] = "deciding"]
            /\ c_stages' = [c_stages EXCEPT ![c] = Append(@, "Perceiving")]
            /\ UNCHANGED c_action
    /\ UNCHANGED <<agents, c_patient_data>>
    /\ UNCHANGED <<agentVars, personVars, mlVars, storeVars>>

\* line 248 in the call of caller c
CallerDeciding(c) ==
    /\ c_pc[c] = "deciding"
    /\ IF ReasonEscapes(frames[Frame(c)].features)
       THEN CallerHandler(c, "reason")
       ELSE /\ frames' = [frames EXCEPT ![Frame(c)].triage_result =
                                            reason(frames[Frame(c)].features)]
            /\ c_pc' = [c_pc EXCEPT ![c] = "acting"]
            /\ c_stages' = [c_stages EXCEPT ![c] = Append(@, "Deciding")]
            /\ UNCHANGED c_action
    /\ UNCHANGED <<agents, c_patient_data>>
    /\ UNCHANGED <<agentVars, personVars, mlVars, storeVars>>

\* lines 251-253 in the call of caller c
CallerActing(c) ==
    /\ c_pc[c] = "acting"
    /\ IF ActEscapes(frames[Frame(c)].triage_result)
       THEN CallerHandler(c, "act")
       ELSE /\ \E now \in Timestamps :
                   c_action' = [c_action EXCEPT ![c] =
                                   act(frames[Frame(c)].triage_result, now)]
            /\ c_pc' = [c_pc EXCEPT ![c] = "done"]
            /\ c_stages' = [c_stages EXCEPT ![c] = Append(@, "Acting")]
            /\ UNCHANGED frames
    /\ UNCHANGED <<agents, c_patient_data>>
    /\ UNCHANGED <<agentVars, personVars, mlVars, storeVars>>

CallersStart ==
    /\ agents = [a \in Agents |-> AgentInit]
    /\ c_pc = [c \in Callers |-> "idle"]
    /\ c_patient_data = [c \in Callers |-> NoValue]
    /\ frames = [c \in Callers |-> NoLocals]
    /\ c_action = [c \in Callers |-> NoValue]
    /\ c_stages = [c \in Callers |-> <<>>]

\* Any caller takes its next step: the steps of different calls interleave.
NextCallers ==
    \/ \E c \in Callers : \E p \in CallerInputs : CallerCall(c, p)
    \/ \E c \in Callers : CallerPerceiving(c)
    \/ \E c \in Callers : CallerDeciding(c)
    \/ \E c \in Callers : CallerActing(c)

(***************************************************************************)
(* person.py: VitalSigns, Symptoms, MedicalHistory, Person                 *)
(* Numeric fields are plain integers here (temperature in tenths).         *)
(***************************************************************************)

NoVitals == [kind |-> "None"]
NoPerson == [kind |-> "None"]
NoLevel  == "None"
NoScore  == <<>>
NoRecs   == <<>>

ValueError(message) == [error |-> "ValueError", message |-> message]
IsError(outcome)    == "error" \in DOMAIN outcome

\* Mutant of VitalSignsCheck: the upper ends compared with >= instead of >.
VitalSignsCheckExclusive(ps, pdia, fc, sat, temp) ==
    IF ps < 50 \/ ps >= 250 THEN "Pressao sistolica fora do range valido"
    ELSE IF pdia < 30 \/ pdia >= 150 THEN "Pressao diastolica fora do range valido"
    ELSE IF fc < 30 \/ fc >= 200 THEN "Frequencia cardiaca fora do range valido"
    ELSE IF sat < 50 \/ sat >= 100 THEN "Saturacao de oxigenio fora do range valido"
    ELSE IF temp < 300 \/ temp >= 450 THEN "Temperatura fora do range valido"
    ELSE ""

\* VitalSigns.__post_init__: the message of the first check that fails, or ""
VitalSignsCheck(ps, pdia, fc, sat, temp) ==
    IF ps < 50 \/ ps > 250 THEN "Pressao sistolica fora do range valido"
    ELSE IF pdia < 30 \/ pdia > 150 THEN "Pressao diastolica fora do range valido"
    ELSE IF fc < 30 \/ fc > 200 THEN "Frequencia cardiaca fora do range valido"
    ELSE IF sat < 50 \/ sat > 100 THEN "Saturacao de oxigenio fora do range valido"
    ELSE IF temp < 300 \/ temp > 450 THEN "Temperatura fora do range valido"
    ELSE ""

\* VitalSigns(...): the object, or the ValueError its __post_init__ raises.
\* The optional fields (frequencia_respiratoria, dor_escala,
\* nivel_consciencia) keep their default None and are read nowhere.
VitalSigns(ps, pdia, fc, sat, temp) ==
    IF VitalSignsCheck(ps, pdia, fc, sat, temp) # ""
    THEN ValueError(VitalSignsCheck(ps, pdia, fc, sat, temp))
    ELSE [pressao_sistolica   |-> ps,
          pressao_diastolica  |-> pdia,
          frequencia_cardiaca |-> fc,
          saturacao_oxigenio  |-> sat,
          temperatura         |-> temp]

\* The fields of Symptoms, in declaration order.
SymptomFields ==
    <<"dor_peito", "dificuldade_respiratoria", "febre", "tontura", "vomito",
      "dor_abdominal", "convulsoes", "sangramento_ativo", "perda_consciencia",
      "dor_cabeca_intensa", "fraqueza_extrema", "palidez_extrema">>

SymptomNames == {SymptomFields[i] : i \in 1..Len(SymptomFields)}

\* Symptoms(**{name: True for name in present}): every other field False
Symptoms(present) == [n \in SymptomNames |-> n \in present]

\* Mutant of RedFlags: dizziness and vomiting tested as red flags too.
RedFlagsWithDizziness ==
    << <<"dor_peito", "Dor no peito">>,
       <<"dificuldade_respiratoria", "Dificuldade respiratoria">>,
       <<"tontura", "Tontura">>,
       <<"vomito", "Vomito">>,
       <<"convulsoes", "Convulsoes">>,
       <<"sangramento_ativo", "Sangramento ativo">>,
       <<"perda_consciencia", "Perda de consciencia">>,
       <<"dor_cabeca_intensa", "Dor de cabeca intensa">> >>

\* Symptoms.get_red_flag_symptoms: <<field, label>> in the order tested
RedFlags ==
    << <<"dor_peito", "Dor no peito">>,
       <<"dificuldade_respiratoria", "Dificuldade respiratoria">>,
       <<"convulsoes", "Convulsoes">>,
       <<"sangramento_ativo", "Sangramento ativo">>,
       <<"perda_consciencia", "Perda de consciencia">>,
       <<"dor_cabeca_intensa", "Dor de cabeca intensa">> >>

RECURSIVE RedFlagsFrom(_, _)
RedFlagsFrom(sintomas, i) ==
    IF i > Len(RedFlags) THEN <<>>
    ELSE (IF sintomas[RedFlags[i][1]] THEN <<RedFlags[i][2]>> ELSE <<>>)
         \o RedFlagsFrom(sintomas, i + 1)

get_red_flag_symptoms(sintomas) == RedFlagsFrom(sintomas, 1)

\* str.lower() on the disease names the model uses
Lower(d) ==
    CASE d = "Asma"    -> "asma"
      [] d = "INFARTO" -> "infarto"
      [] OTHER         -> d

\* MedicalHistory.has_cardiac_history / has_respiratory_history
\* (accents dropped: "hipertensao", "insuficiencia cardiaca")
CardiacConditions ==
    {"hipertensao", "infarto", "arritmia", "angina", "insuficiencia cardiaca",
     "valvopatia"}

RespiratoryConditions ==
    {"asma", "dpoc", "pneumonia", "bronquite", "enfisema", "fibrose pulmonar"}

has_cardiac_history(doencas_cronicas) ==
    \E c \in CardiacConditions : Lower(c) \in {Lower(d) : d \in doencas_cronicas}

has_respiratory_history(doencas_cronicas) ==
    \E c \in RespiratoryConditions : Lower(c) \in {Lower(d) : d \in doencas_cronicas}

\* Person.__post_init__, lines 146-156: prioridade and tempo_espera_estimado
\* of a risk level; the defaults 0 and None when no level is given.
PrioridadeOf(nivel_risco) ==
    CASE nivel_risco = "VERMELHO" -> 1
      [] nivel_risco = "AMARELO"  -> 2
      [] nivel_risco = "VERDE"    -> 3
      [] OTHER                    -> 0

TempoEsperaOf(nivel_risco) ==
    CASE nivel_risco = "VERMELHO" -> Num(0)
      [] nivel_risco = "AMARELO"  -> Num(60)
      [] nivel_risco = "VERDE"    -> Num(240)
      [] OTHER                    -> None

\* Person(...): the object, or the ValueError its __post_init__ raises.
\* Identification and contact fields take no part in any rule and are left out.
Person(idade, nivel_risco, sinais_vitais, sintomas, doencas_cronicas) ==
    IF idade < 0 \/ idade > 120
    THEN ValueError("Idade deve estar entre 0 e 120 anos")
    ELSE [idade                 |-> idade,
          sinais_vitais         |-> sinais_vitais,
          sintomas              |-> sintomas,
          doencas_cronicas      |-> doencas_cronicas,
          nivel_risco           |-> nivel_risco,
          prioridade            |-> PrioridadeOf(nivel_risco),
          tempo_espera_estimado |-> TempoEsperaOf(nivel_risco)]

\* Person.calculate_risk_score, lines 185-212: the points of each part
AgePoints(p) == IF p.idade > 65 THEN 2 ELSE IF p.idade > 50 THEN 1 ELSE 0

\* Mutant of VitalPoints: the fever threshold of the agent's rule (39.5).
VitalPointsAgentFever(v) ==
      (IF v.pressao_sistolica < 90 \/ v.pressao_sistolica > 180 THEN 2 ELSE 0)
    + (IF v.saturacao_oxigenio < 90 THEN 2 ELSE 0)
    + (IF v.frequencia_cardiaca < 50 \/ v.frequencia_cardiaca > 120 THEN 1 ELSE 0)
    + (IF v.temperatura > 395 THEN 1 ELSE 0)

VitalPoints(v) ==
      (IF v.pressao_sistolica < 90 \/ v.pressao_sistolica > 180 THEN 2 ELSE 0)
    + (IF v.saturacao_oxigenio < 90 THEN 2 ELSE 0)
    + (IF v.frequencia_cardiaca < 50 \/ v.frequencia_cardiaca > 120 THEN 1 ELSE 0)
    + (IF v.temperatura > 390 THEN 1 ELSE 0)

SymptomPoints(p) ==
    LET red_flags == Len(get_red_flag_symptoms(p.sintomas))
    IN  IF red_flags >= 3 THEN 3
        ELSE IF red_flags >= 2 THEN 2
        ELSE IF red_flags >= 1 THEN 1
        ELSE 0

HistoryPoints(p) ==
    IF has_cardiac_history(p.doencas_cronicas)
       \/ has_respiratory_history(p.doencas_cronicas)
    THEN 1 ELSE 0

\* Mutant of calculate_risk_score: no early return for a person without
\* vital signs; age, symptoms and history are counted all the same.
calculate_risk_scoreCountingOn(p) ==
    Min(AgePoints(p)
        + (IF p.sinais_vitais = NoVitals THEN 0 ELSE VitalPoints(p.sinais_vitais))
        + SymptomPoints(p) + HistoryPoints(p), 10)

\* Person.calculate_risk_score
calculate_risk_score(p) ==
    IF p.sinais_vitais = NoVitals
    THEN 0
    ELSE Min(AgePoints(p) + VitalPoints(p.sinais_vitais) + SymptomPoints(p)
             + HistoryPoints(p), 10)

\* Person.get_recommendations, lines 220-226: only RiskLevel.VERMELHO has a
\* list of its own
LevelRecommendations(p) ==
    IF p.nivel_risco = "VERMELHO"
    THEN <<"Atendimento medico imediato",
           "Monitorizacao continua dos sinais vitais",
           "Acesso venoso se necessario",
           "Oxigenoterapia se SpO2 < 90%">>
    ELSE <<>>

\* lines 228-234
VitalRecommendations(p) ==
    IF p.sinais_vitais = NoVitals THEN <<>>
    ELSE (IF p.sinais_vitais.pressao_sistolica > 180
          THEN <<"Controle pressorico urgente">> ELSE <<>>)
         \o (IF p.sinais_vitais.saturacao_oxigenio < 90
             THEN <<"Suporte ventilatorio">> ELSE <<>>)
         \o (IF p.sinais_vitais.temperatura > 390
             THEN <<"Medidas antitermicas">> ELSE <<>>)

\* lines 236-239
SymptomRecommendations(p) ==
    (IF p.sintomas["dor_peito"] THEN <<"ECG imediato">> ELSE <<>>)
    \o (IF p.sintomas["dificuldade_respiratoria"]
        THEN <<"Raio-X de torax">> ELSE <<>>)

\* Person.get_recommendations
get_recommendations(p) ==
    LevelRecommendations(p) \o VitalRecommendations(p) \o SymptomRecommendations(p)

(***************************************************************************)
(* Inputs and actions of the patient record                                *)
(***************************************************************************)

\* Both sides of both ends of every valid range of VitalSigns.
VitalSignsInputs ==
    [pressao_sistolica   : {49, 50, 250, 251},
     pressao_diastolica  : {29, 30, 150, 151},
     frequencia_cardiaca : {29, 30, 200, 201},
     saturacao_oxigenio  : {49, 50, 100, 101},
     temperatura         : {299, 300, 450, 451}]

\* Vital signs on both sides of every threshold of calculate_risk_score.
ScoredVitalSigns ==
    { VitalSigns(ps, 80, fc, sat, temp) :
        ps \in {89, 90, 180, 181}, fc \in {49, 50, 120, 121},
        sat \in {89, 90}, temp \in {390, 391} }

\* Bound: how many symptoms a patient presents at once.
MaxSymptoms == 3

\* The six red flags and two symptoms that are none.
SymptomInputs ==
    {"dor_peito", "dificuldade_respiratoria", "convulsoes", "sangramento_ativo",
     "perda_consciencia", "dor_cabeca_intensa", "tontura", "vomito"}

SymptomSets == {S \in SUBSET SymptomInputs : Cardinality(S) <= MaxSymptoms}

DoencasInputs ==
    {{}, {"Asma"}, {"INFARTO"}, {"diabetes"}, {"Asma", "INFARTO"}}

PersonArgs(idade, nivel_risco, sinais_vitais, present, doencas_cronicas) ==
    [idade            |-> idade,
     nivel_risco      |-> nivel_risco,
     sinais_vitais    |-> sinais_vitais,
     present          |-> present,
     doencas_cronicas |-> doencas_cronicas]

\* The critical patient of demo.py (paciente_vermelho, lines 80-94) as a
\* Person: 200/120, heart rate 140, saturation 85, 40.0 C, 70 years, chest
\* pain, breathing difficulty, fever, dizziness and vomiting, no chronic
\* disease.
ScenarioBSymptoms ==
    {"dor_peito", "dificuldade_respiratoria", "febre", "tontura", "vomito"}

ScenarioB ==
    PersonArgs(70, NoLevel, VitalSigns(200, 120, 140, 85, 400),
               ScenarioBSymptoms, {})

\* Persons whose recommendations are asked for: every risk level (and none),
\* with vital signs on both sides of the thresholds of get_recommendations
\* (or none) and every combination of chest pain and breathing difficulty.
RecommendationInputs ==
    { PersonArgs(40, nivel, v, present, {}) :
        nivel \in RiskLevel \cup {NoLevel},
        v \in { VitalSigns(ps, 80, 70, sat, temp) :
                  ps \in {180, 181}, sat \in {89, 90}, temp \in {390, 391} }
              \cup {NoVitals},
        present \in SUBSET {"dor_peito", "dificuldade_respiratoria"} }

\* Person(...) calls: ages around the ends of the valid range with every risk
\* level, ages around the score's thresholds with vitals, symptoms and
\* history, the critical patient, and the persons above.
PersonInputs ==
    { PersonArgs(idade, nivel, NoVitals, {}, {}) :
        idade \in {-1, 0, 120, 121}, nivel \in RiskLevel \cup {NoLevel} }
    \cup
    { PersonArgs(idade, NoLevel, v, present, doencas) :
        idade \in {50, 51, 65, 66}, v \in ScoredVitalSigns \cup {NoVitals},
        present \in SymptomSets, doencas \in DoencasInputs }
    \cup {ScenarioB}
    \cup RecommendationInputs

\* A caller constructs VitalSigns(**a).
NewVitalSigns(a) ==
    /\ vs_args' = a
    /\ vs_out' = VitalSigns(a.pressao_sistolica, a.pressao_diastolica,
                            a.frequencia_cardiaca, a.saturacao_oxigenio,
                            a.temperatura)
    /\ person_args' = NoValue
    /\ person' = NoPerson
    /\ score' = NoScore
    /\ recs' = NoRecs
    /\ UNCHANGED <<agentVars, callerVars, mlVars, storeVars>>

\* A caller constructs Person(**a).
NewPerson(a) ==
    /\ person_args' = a
    /\ person' = Person(a.idade, a.nivel_risco, a.sinais_vitais,
                        Symptoms(a.present), a.doencas_cronicas)
    /\ vs_args' = NoValue
    /\ vs_out' = NoValue
    /\ score' = NoScore
    /\ recs' = NoRecs
    /\ UNCHANGED <<agentVars, callerVars, mlVars, storeVars>>

\* A caller invokes person.get_recommendations().
GetRecommendations ==
    /\ person_args \in RecommendationInputs
    /\ ~IsError(person)
    /\ score = NoScore
    /\ recs = NoRecs
    /\ recs' = <<get_recommendations(person)>>
    /\ UNCHANGED <<vs_args, vs_out, person_args, person, score, agentVars,
                   callerVars, mlVars, storeVars>>

\* A caller invokes person.calculate_risk_score().
CalculateRiskScore ==
    /\ person # NoPerson
    /\ ~IsError(person)
    /\ score = NoScore
    /\ recs = NoRecs
    /\ score' = Num(calculate_risk_score(person))
    /\ UNCHANGED <<vs_args, vs_out, person_args, person, recs, agentVars, callerVars, mlVars, storeVars>>

PersonStart ==
    /\ vs_args = NoValue
    /\ vs_out = NoValue
    /\ person_args = NoValue
    /\ person = NoPerson
    /\ score = NoScore
    /\ recs = NoRecs

\* One construction per behaviour: the constructors and the score read
\* nothing but their arguments.
Fresh == person = NoPerson /\ vs_out = NoValue

VitalSignsEntry == Fresh /\ \E a \in VitalSignsInputs : NewVitalSigns(a)
PersonEntry     == Fresh /\ \E a \in PersonInputs : NewPerson(a)

NextPerson ==
    \/ VitalSignsEntry
    \/ PersonEntry
    \/ CalculateRiskScore
    \/ GetRecommendations

(***************************************************************************)
(* ml/models.py: TriageMLModel                                             *)
(* The scikit-learn estimator, scaler and label encoder are opaque: a call *)
(* on them succeeds with some value or raises.                             *)
(***************************************************************************)

\* TriageMLModel.__init__: the object, or the ValueError of line 56.
\* model tells which estimator self.model is: the unfitted one of __init__,
\* the one train fitted, or the one load_model read from a file.
TriageMLModel(model_type) ==
    IF model_type \in {"naive_bayes", "random_forest"}
    THEN [model_type |-> model_type, model |-> "unfitted", is_trained |-> FALSE]
    ELSE ValueError("Tipo de modelo nao suportado")

ModelTypes == {"naive_bayes", "random_forest", "svm"}

\* The labels of the training data (utils/data_generator.py).
Labels == {"VERMELHO", "AMARELO", "VERDE"}

\* Bound: how many rows the DataFrame passed to predict has.
MaxRows == 4

\* A DataFrame passed to predict: its rows, and whether it has the columns
\* prepare_features and the scaler expect.
DataFrames == [rows : 0..MaxRows, columns_ok : BOOLEAN]

\* np.array([]), np.array([]) of line 190
EmptyArrays == [predictions |-> <<>>, probabilities |-> <<>>]

\* The try block of predict raises: the ValueError of line 171 when the model
\* is not trained; otherwise the scaler or the estimator raises on a frame
\* without the expected columns or without rows.
PredictRaises(m, X) ==
    \/ ~m.is_trained
    \/ ~X.columns_ok
    \/ X.rows = 0

\* TriageMLModel.predict; labels is what the estimator answers for the rows,
\* and the class with the highest probability of a row is its label.
predict(m, X, labels) ==
    IF PredictRaises(m, X)
    THEN EmptyArrays
    ELSE [predictions   |-> labels,
          probabilities |-> [i \in 1..Len(labels) |-> [argmax |-> labels[i]]]]

\* A caller constructs TriageMLModel(model_type).
NewModel(model_type) ==
    /\ ml = NoValue
    /\ ml' = TriageMLModel(model_type)
    /\ UNCHANGED <<ml_X, ml_out>>
    /\ UNCHANGED <<agentVars, personVars, callerVars, storeVars>>

\* TriageMLModel.train: the split, the scaler or the fit may raise (the
\* model stays as it was), and after line 134 the evaluation may raise (the
\* model is trained all the same); the report returned is not kept.
Train(fitted) ==
    /\ ml # NoValue
    /\ ~IsError(ml)
    /\ ml_out = NoValue
    /\ ml' = IF fitted
             THEN [ml EXCEPT !.model = "fitted", !.is_trained = TRUE]
             ELSE ml
    /\ UNCHANGED <<ml_X, ml_out>>
    /\ UNCHANGED <<agentVars, personVars, callerVars, storeVars>>

\* TriageMLModel.load_model: joblib.load raises (nothing changes), or the
\* fields are taken from the file save_model wrote for a trained model.
LoadModel(loaded, model_type) ==
    /\ ml # NoValue
    /\ ~IsError(ml)
    /\ ml_out = NoValue
    /\ ml' = IF loaded
             THEN [model_type |-> model_type, model |-> "loaded",
                   is_trained |-> TRUE]
             ELSE ml
    /\ UNCHANGED <<ml_X, ml_out>>
    /\ UNCHANGED <<agentVars, personVars, callerVars, storeVars>>

\* A caller invokes ml.predict(X).
Predict(X, labels) ==
    /\ ml # NoValue
    /\ ~IsError(ml)
    /\ ml_out = NoValue
    /\ ml_X' = X
    /\ ml_out' = predict(ml, X, labels)
    /\ UNCHANGED ml
    /\ UNCHANGED <<agentVars, personVars, callerVars, storeVars>>

ClassifierStart ==
    /\ ml = NoValue
    /\ ml_X = NoValue
    /\ ml_out = NoValue

NextClassifier ==
    \/ \E t \in ModelTypes : NewModel(t)
    \/ \E fitted \in BOOLEAN : Train(fitted)
    \/ \E loaded \in BOOLEAN, t \in {"naive_bayes", "random_forest"} :
           LoadModel(loaded, t)
    \/ \E X \in DataFrames : \E labels \in [1..X.rows -> Labels] :
           Predict(X, labels)

(***************************************************************************)
(* models/person_dao.py: the record stores                                 *)
(* A Person object is the record of Person(...) with its id and its        *)
(* data_chegada.  The heap holds the objects, in the order they were       *)
(* constructed; InMemoryPersonDAO._data holds references to them (their    *)
(* ids, in insertion order), the file of FilePersonDAO holds the dicts     *)
(* json.dump wrote.                                                        *)
(***************************************************************************)

\* Bound: how many Person objects the callers of the service construct
\* (uuid4 hands out the ids 1, 2, ...).
MaxPersons == 1

\* Bound: how many Person objects are constructed where the stores are
\* compared and where the emergency queue is asked for.
MaxStored == 2

\* Person(id=id, data_chegada=data_chegada, ...)
PersonObject(id, data_chegada, p) ==
    IF IsError(p) THEN p
    ELSE [x \in {"id", "data_chegada"} \cup DOMAIN p |->
            IF x = "id" THEN id
            ELSE IF x = "data_chegada" THEN data_chegada
            ELSE p[x]]

RECURSIVE IndexOf(_, _, _)
\* the position of the entry with key id in a sequence of keys, or 0
IndexOf(keys, id, i) ==
    IF i > Len(keys) THEN 0
    ELSE IF keys[i] = id THEN i
    ELSE IndexOf(keys, id, i + 1)

Has(keys, id) == IndexOf(keys, id, 1) # 0

\* del d[key]: the other entries keep their order
Without(xs, k) == [i \in 1..(Len(xs) - 1) |-> IF i < k THEN xs[i] ELSE xs[i + 1]]

RECURSIVE Filter(_, _, _)
\* [x for x in xs if keep[x]] from position i on
Filter(xs, keep, i) ==
    IF i > Len(xs) THEN <<>>
    ELSE (IF keep[xs[i]] THEN <<xs[i]>> ELSE <<>>) \o Filter(xs, keep, i + 1)

\* InMemoryPersonDAO.save: self._data[person.id] = person (a key already
\* there keeps its place); always True
MemSave(data, id) == IF Has(data, id) THEN data ELSE Append(data, id)

\* InMemoryPersonDAO.delete (update and delete return whether the id is there)
MemDelete(data, id) ==
    IF Has(data, id) THEN Without(data, IndexOf(data, id, 1)) ELSE data

\* InMemoryPersonDAO.get_by_id: the stored object itself, or None
MemGetById(data, objects, id) == IF Has(data, id) THEN objects[id] ELSE NoPerson

\* InMemoryPersonDAO.get_all
MemGetAll(data, objects) == [i \in 1..Len(data) |-> objects[data[i]]]

\* InMemoryPersonDAO.get_by_risk_level
MemGetByRiskLevel(data, objects, risk_level) ==
    LET ids == Filter(data, [id \in DOMAIN objects |->
                               objects[id].nivel_risco = risk_level], 1)
    IN  [i \in 1..Len(ids) |-> objects[ids[i]]]

\* datetime.isoformat / datetime.fromisoformat
isoformat(t)     == [iso |-> t]
fromisoformat(s) == s.iso

\* RiskLevel(value): the member with that value
RiskLevelOf(value) == CHOOSE name \in RiskLevel : RiskLevelValue(name) = value

\* FilePersonDAO._person_to_dict (the fields modelled)
person_to_dict(p) ==
    [id                    |-> p.id,
     idade                 |-> p.idade,
     data_chegada          |-> isoformat(p.data_chegada),
     nivel_risco           |-> IF p.nivel_risco # NoLevel
                               THEN RiskLevelValue(p.nivel_risco) ELSE "null",
     prioridade            |-> p.prioridade,
     tempo_espera_estimado |-> p.tempo_espera_estimado,
     sinais_vitais         |-> p.sinais_vitais,
     sintomas              |-> p.sintomas,
     doencas_cronicas      |-> p.doencas_cronicas]

\* FilePersonDAO._dict_to_person: VitalSigns(**...) and Person(**person_data)
\* run their __post_init__ again, so a level that is set gives prioridade
\* and tempo_espera_estimado anew; without a level the dict's values stay.
\* The result is the object, or the ValueError raised.
dict_to_person(d) ==
    LET v == IF d.sinais_vitais = NoVitals THEN NoVitals
             ELSE VitalSigns(d.sinais_vitais.pressao_sistolica,
                             d.sinais_vitais.pressao_diastolica,
                             d.sinais_vitais.frequencia_cardiaca,
                             d.sinais_vitais.saturacao_oxigenio,
                             d.sinais_vitais.temperatura)
        nivel == IF d.nivel_risco # "null" THEN RiskLevelOf(d.nivel_risco)
                 ELSE NoLevel
        p == PersonObject(d.id, fromisoformat(d.data_chegada),
                          Person(d.idade, nivel, v, d.sintomas, d.doencas_cronicas))
    IN  IF IsError(v) THEN v
        ELSE IF IsError(p) \/ nivel # NoLevel THEN p
        ELSE [p EXCEPT !.prioridade = d.prioridade,
                       !.tempo_espera_estimado = d.tempo_espera_estimado]

\* the keys of the file's dict, in order
FileKeys(f) == [i \in 1..Len(f) |-> f[i].id]

\* FilePersonDAO.save: data[person.id] = dict, then the file is written
FileSave(f, p) ==
    IF Has(FileKeys(f), p.id)
    THEN [f EXCEPT ![IndexOf(FileKeys(f), p.id, 1)] = person_to_dict(p)]
    ELSE Append(f, person_to_dict(p))

\* FilePersonDAO.update
FileUpdate(f, p) == IF Has(FileKeys(f), p.id) THEN FileSave(f, p) ELSE f

\* FilePersonDAO.delete
FileDelete(f, id) ==
    IF Has(FileKeys(f), id) THEN Without(f, IndexOf(FileKeys(f), id, 1)) ELSE f

\* FilePersonDAO.get_by_id: None when the id is not in the file, and from the
\* except branch when _dict_to_person raises
FileGetById(f, id) ==
    IF ~Has(FileKeys(f), id) THEN NoPerson
    ELSE LET p == dict_to_person(f[IndexOf(FileKeys(f), id, 1)])
         IN  IF IsError(p) THEN NoPerson ELSE p

\* FilePersonDAO.get_all: [] from the except branch when one dict raises
FileGetAll(f) ==
    LET ps == [i \in 1..Len(f) |-> dict_to_person(f[i])]
    IN  IF \E i \in 1..Len(f) : IsError(ps[i]) THEN <<>> ELSE ps

\* FilePersonDAO.get_by_risk_level
FileGetByRiskLevel(f, risk_level) ==
    LET ps == FileGetAll(f)
        at == Filter([i \in 1..Len(ps) |-> i],
                     [i \in 1..Len(ps) |-> ps[i].nivel_risco = risk_level], 1)
    IN  [i \in 1..Len(at) |-> ps[at[i]]]

(***************************************************************************)
(* models/person_dao.py: EmergencyPersonService over an InMemoryPersonDAO  *)
(* (as in example_emergency_patient.py, lines 88-89)                       *)
(***************************************************************************)

\* Mutant of is_emergency_case: the vital signs alone decide.
is_emergency_caseVitalsOnly(p) ==
    /\ p.sinais_vitais # NoVitals
    /\ \/ p.sinais_vitais.pressao_sistolica < 90
       \/ p.sinais_vitais.pressao_sistolica > 180
       \/ p.sinais_vitais.saturacao_oxigenio < 90
       \/ p.sinais_vitais.frequencia_cardiaca < 50
       \/ p.sinais_vitais.frequencia_cardiaca > 120
       \/ p.sinais_vitais.temperatura > 390

\* Person.is_emergency_case (it reads sinais_vitais and sintomas only)
is_emergency_case(p) ==
    /\ p.sinais_vitais # NoVitals
    /\ \/ p.sinais_vitais.pressao_sistolica < 90
       \/ p.sinais_vitais.pressao_sistolica > 180
       \/ p.sinais_vitais.saturacao_oxigenio < 90
       \/ p.sinais_vitais.frequencia_cardiaca < 50
       \/ p.sinais_vitais.frequencia_cardiaca > 120
       \/ p.sinais_vitais.temperatura > 390
       \/ Len(get_red_flag_symptoms(p.sintomas)) > 0

\* Mutant of Recalculated: a person that is no emergency case any more is
\* moved to VERDE.
RecalculatedBothWays(p) ==
    [p EXCEPT !.nivel_risco = IF is_emergency_case(p) THEN "VERMELHO" ELSE "VERDE"]

\* "if person.is_emergency_case(): person.nivel_risco = RiskLevel.VERMELHO"
\* (lines 257-258 and 272-273): prioridade and tempo_espera_estimado are
\* fields of their own and stay as they are.
Recalculated(p) ==
    IF is_emergency_case(p) THEN [p EXCEPT !.nivel_risco = "VERMELHO"] ELSE p

\* Mutant of with_vital_signs: the vital signs that failed the validation
\* take the earlier ones off the person.
with_vital_signsCleared(p, v) ==
    IF IsError(v) THEN [p EXCEPT !.sinais_vitais = NoVitals]
    ELSE Recalculated([p EXCEPT !.sinais_vitais = v])

\* The try block of add_vital_signs up to dao.update: the person afterwards;
\* VitalSigns(...) raises before anything is assigned.
with_vital_signs(p, v) ==
    IF IsError(v) THEN p ELSE Recalculated([p EXCEPT !.sinais_vitais = v])

\* The try block of add_symptoms up to dao.update: setattr for the names
\* Symptoms has (hasattr), the others are skipped.
with_symptoms(p, symptoms) ==
    Recalculated([p EXCEPT !.sintomas =
        [n \in SymptomNames |-> IF n \in DOMAIN symptoms THEN symptoms[n] ELSE @[n]]])

\* the sort key of get_emergency_queue: (calculate_risk_score(), data_chegada)
QueueKey(p) == <<calculate_risk_score(p), p.data_chegada>>

\* tuple comparison a >= b
KeyGeq(a, b) == a[1] > b[1] \/ (a[1] = b[1] /\ a[2] >= b[2])

\* sorted(..., reverse=True) is stable: x goes after every element whose key
\* is not below its own.
InsertDescending(sorted, x) ==
    LET before == {i \in 1..Len(sorted) : KeyGeq(QueueKey(sorted[i]), QueueKey(x))}
        k == Cardinality(before)
    IN  [i \in 1..(Len(sorted) + 1) |->
            IF i <= k THEN sorted[i] ELSE IF i = k + 1 THEN x ELSE sorted[i - 1]]

RECURSIVE SortedDescending(_, _)
SortedDescending(xs, n) ==
    IF n = 0 THEN <<>> ELSE InsertDescending(SortedDescending(xs, n - 1), xs[n])

\* EmergencyPersonService.get_emergency_queue
get_emergency_queue(data, objects) ==
    LET emergency_patients == MemGetByRiskLevel(data, objects, "VERMELHO")
    IN  SortedDescending(emergency_patients, Len(emergency_patients))

\* The last call: its name, the person (or the id or level) it was given, its
\* other arguments, and what it returned.
Called(op, arg, args, ret) == [op |-> op, arg |-> arg, args |-> args, ret |-> ret]

\* Persons constructed: create_emergency_patient(nome, idade=70), and
\* Person(...) directly without a level, with the level VERDE, or without a
\* level, 70 years old and with a cardiac history.
PatientArgs ==
    {PersonArgs(70, "VERMELHO", NoVitals, {}, {}),
     PersonArgs(40, NoLevel, NoVitals, {}, {}),
     PersonArgs(40, "VERDE", NoVitals, {}, {}),
     PersonArgs(70, NoLevel, NoVitals, {}, {"INFARTO"})}

\* The vital signs passed to add_vital_signs: normal ones, those of the first
\* patient of example_emergency_patient.py (85/50, lines 102-109), and a
\* systolic pressure outside the valid range.
VitalSignsArgs ==
    {<<120, 80, 70, 98, 365>>, <<85, 50, 110, 92, 365>>, <<300, 80, 70, 98, 365>>}

\* The keyword arguments passed to add_symptoms; Symptoms has no "nausea".
SymptomsArgs ==
    {[n \in {"dor_peito"} |-> TRUE], [n \in {"dor_peito"} |-> FALSE],
     [n \in {"nausea"} |-> TRUE]}

\* datetime.now() at a construction: time counts from the first one, and the
\* next is at the same instant as the one before or later.
Now(objects) ==
    IF objects = <<>> THEN {0}
    ELSE {objects[Len(objects)].data_chegada, objects[Len(objects)].data_chegada + 1}

\* Person(...) / create_emergency_patient: a new object, with the next id
\* and the time of the call as data_chegada.
NewPatient(a, now) ==
    /\ heap' = Append(heap,
                  PersonObject(Len(heap) + 1, now,
                               Person(a.idade, a.nivel_risco, a.sinais_vitais,
                                      Symptoms(a.present), a.doencas_cronicas)))
    /\ svc' = Called("Person", Len(heap) + 1, NoValue, NoValue)
    /\ UNCHANGED <<dao_data, file>>
    /\ UNCHANGED <<agentVars, personVars, callerVars, mlVars, threadVars, df>>

\* Mutant of AddVitalSigns: dao.save called where dao.update is.
AddVitalSignsSaving(id, a) ==
    /\ id \in DOMAIN heap
    /\ LET v == VitalSigns(a[1], a[2], a[3], a[4], a[5])
       IN  /\ heap' = [heap EXCEPT ![id] = with_vital_signs(@, v)]
           /\ dao_data' = IF IsError(v) THEN dao_data ELSE MemSave(dao_data, id)
           /\ svc' = Called("add_vital_signs", id, a, ~IsError(v))
    /\ UNCHANGED file
    /\ UNCHANGED <<agentVars, personVars, callerVars, mlVars, threadVars, df>>

\* EmergencyPersonService.add_vital_signs(person, ...)
AddVitalSigns(id, a) ==
    /\ id \in DOMAIN heap
    /\ LET v == VitalSigns(a[1], a[2], a[3], a[4], a[5])
       IN  /\ heap' = [heap EXCEPT ![id] = with_vital_signs(@, v)]
           /\ svc' = Called("add_vital_signs", id, a,
                            IF IsError(v) THEN FALSE ELSE Has(dao_data, id))
    /\ UNCHANGED <<dao_data, file>>
    /\ UNCHANGED <<agentVars, personVars, callerVars, mlVars, threadVars, df>>

\* EmergencyPersonService.add_symptoms(person, **symptoms)
AddSymptoms(id, symptoms) ==
    /\ id \in DOMAIN heap
    /\ heap' = [heap EXCEPT ![id] = with_symptoms(@, symptoms)]
    /\ svc' = Called("add_symptoms", id, symptoms, Has(dao_data, id))
    /\ UNCHANGED <<dao_data, file>>
    /\ UNCHANGED <<agentVars, personVars, callerVars, mlVars, threadVars, df>>

\* EmergencyPersonService.save_emergency_patient(person)
SaveEmergencyPatient(id) ==
    /\ id \in DOMAIN heap
    /\ heap' = [heap EXCEPT ![id].nivel_risco = "VERMELHO"]
    /\ dao_data' = MemSave(dao_data, id)
    /\ svc' = Called("save_emergency_patient", id, NoValue, TRUE)
    /\ UNCHANGED file
    /\ UNCHANGED <<agentVars, personVars, callerVars, mlVars, threadVars, df>>

\* EmergencyPersonService.get_emergency_queue()
GetEmergencyQueue ==
    /\ svc' = Called("get_emergency_queue", NoValue, NoValue,
                     get_emergency_queue(dao_data, heap))
    /\ UNCHANGED <<heap, dao_data, file>>
    /\ UNCHANGED <<agentVars, personVars, callerVars, mlVars, threadVars, df>>

ServiceStart ==
    /\ heap = <<>>
    /\ dao_data = <<>>
    /\ file = <<>>
    /\ svc = NoValue

NextService ==
    \/ Len(heap) < MaxPersons
       /\ \E a \in PatientArgs, now \in Now(heap) : NewPatient(a, now)
    \/ \E id \in DOMAIN heap, a \in VitalSignsArgs : AddVitalSigns(id, a)
    \/ \E id \in DOMAIN heap, symptoms \in SymptomsArgs : AddSymptoms(id, symptoms)
    \/ \E id \in DOMAIN heap : SaveEmergencyPatient(id)
    \/ GetEmergencyQueue

\* The same calls with the patients an emergency queue needs.
NextQueue ==
    \/ Len(heap) < MaxStored
       /\ \E a \in PatientArgs, now \in Now(heap) : NewPatient(a, now)
    \/ \E id \in DOMAIN heap, a \in VitalSignsArgs : AddVitalSigns(id, a)
    \/ \E id \in DOMAIN heap, symptoms \in SymptomsArgs : AddSymptoms(id, symptoms)
    \/ \E id \in DOMAIN heap : SaveEmergencyPatient(id)
    \/ GetEmergencyQueue

(***************************************************************************)
(* models/person_dao.py: the same call made on an InMemoryPersonDAO and on *)
(* a FilePersonDAO.  Reading and writing the file do not fail here.        *)
(***************************************************************************)

\* What the two stores returned.
Both(memory, in_file) == [memory |-> memory, file |-> in_file]

\* save_emergency_patient(person) on a service over each store
SaveEmergencyPatientBoth(id) ==
    /\ id \in DOMAIN heap
    /\ heap' = [heap EXCEPT ![id].nivel_risco = "VERMELHO"]
    /\ dao_data' = MemSave(dao_data, id)
    /\ file' = FileSave(file, heap'[id])
    /\ svc' = Called("save_emergency_patient", id, NoValue, Both(TRUE, TRUE))
    /\ UNCHANGED <<agentVars, personVars, callerVars, mlVars, threadVars, df>>

\* dao.save(person)
DaoSave(id) ==
    /\ id \in DOMAIN heap
    /\ dao_data' = MemSave(dao_data, id)
    /\ file' = FileSave(file, heap[id])
    /\ svc' = Called("save", id, NoValue, Both(TRUE, TRUE))
    /\ UNCHANGED heap
    /\ UNCHANGED <<agentVars, personVars, callerVars, mlVars, threadVars, df>>

\* dao.update(person)
DaoUpdate(id) ==
    /\ id \in DOMAIN heap
    /\ file' = FileUpdate(file, heap[id])
    /\ svc' = Called("update", id, NoValue,
                     Both(Has(dao_data, id), Has(FileKeys(file), id)))
    /\ UNCHANGED <<heap, dao_data>>
    /\ UNCHANGED <<agentVars, personVars, callerVars, mlVars, threadVars, df>>

\* dao.delete(person_id)
DaoDelete(id) ==
    /\ dao_data' = MemDelete(dao_data, id)
    /\ file' = FileDelete(file, id)
    /\ svc' = Called("delete", id, NoValue,
                     Both(Has(dao_data, id), Has(FileKeys(file), id)))
    /\ UNCHANGED heap
    /\ UNCHANGED <<agentVars, personVars, callerVars, mlVars, threadVars, df>>

\* dao.get_by_id(person_id)
DaoGetById(id) ==
    /\ svc' = Called("get_by_id", id, NoValue,
                     Both(MemGetById(dao_data, heap, id), FileGetById(file, id)))
    /\ UNCHANGED <<heap, dao_data, file>>
    /\ UNCHANGED <<agentVars, personVars, callerVars, mlVars, threadVars, df>>

\* dao.get_all()
DaoGetAll ==
    /\ svc' = Called("get_all", NoValue, NoValue,
                     Both(MemGetAll(dao_data, heap), FileGetAll(file)))
    /\ UNCHANGED <<heap, dao_data, file>>
    /\ UNCHANGED <<agentVars, personVars, callerVars, mlVars, threadVars, df>>

\* dao.get_by_risk_level(risk_level)
DaoGetByRiskLevel(risk_level) ==
    /\ svc' = Called("get_by_risk_level", risk_level, NoValue,
                     Both(MemGetByRiskLevel(dao_data, heap, risk_level),
                          FileGetByRiskLevel(file, risk_level)))
    /\ UNCHANGED <<heap, dao_data, file>>
    /\ UNCHANGED <<agentVars, personVars, callerVars, mlVars, threadVars, df>>

NextDAO ==
    \/ Len(heap) < MaxStored
       /\ \E a \in PatientArgs, now \in Now(heap) : NewPatient(a, now)
    \/ \E id \in DOMAIN heap : SaveEmergencyPatientBoth(id)
    \/ \E id \in DOMAIN heap : DaoSave(id)
    \/ \E id \in DOMAIN heap : DaoUpdate(id)
    \/ \E id \in 1..MaxStored : DaoDelete(id)
    \/ \E id \in 1..MaxStored : DaoGetById(id)
    \/ DaoGetAll
    \/ \E risk_level \in RiskLevel : DaoGetByRiskLevel(risk_level)

(***************************************************************************)
(* models/person_dao.py: FilePersonDAO.save called by several threads on   *)
(* one file.  A step is one read of the whole file or one write of it.     *)
(***************************************************************************)

\* Bound: how many threads call save, each with a person of its own.
MaxThreads == 3
Threads    == 1..MaxThreads

\* The person thread t saves: one create_emergency_patient made, with the
\* id t.
ThreadPerson(t) ==
    PersonObject(t, 0, Person(40, "VERMELHO", NoVitals, Symptoms({}), {}))

\* save, line 171: data = self._load_data()
SaveLoad(t) ==
    /\ t_pc[t] = "idle"
    /\ t_pc' = [t_pc EXCEPT ![t] = "loaded"]
    /\ t_data' = [t_data EXCEPT ![t] = file]
    /\ UNCHANGED <<t_ret, serviceVars>>
    /\ UNCHANGED <<agentVars, personVars, callerVars, mlVars, df>>

\* save, lines 172-173: data[person.id] = ..., then _save_data(data) writes
\* the whole dict over the file and returns True, or open() raises, the file
\* stays as it is and False is returned.
SaveWrite(t, written) ==
    /\ t_pc[t] = "loaded"
    /\ t_pc' = [t_pc EXCEPT ![t] = "done"]
    /\ t_data' = [t_data EXCEPT ![t] = FileSave(@, ThreadPerson(t))]
    /\ file' = IF written THEN t_data'[t] ELSE file
    /\ t_ret' = [t_ret EXCEPT ![t] = Num(written)]
    /\ UNCHANGED <<heap, dao_data, svc>>
    /\ UNCHANGED <<agentVars, personVars, callerVars, mlVars, df>>

ThreadsStart ==
    /\ t_pc = [t \in Threads |-> "idle"]
    /\ t_data = [t \in Threads |-> <<>>]
    /\ t_ret = [t \in Threads |-> None]

NextThreads ==
    \/ \E t \in Threads : SaveLoad(t)
    \/ \E t \in Threads, written \in BOOLEAN : SaveWrite(t, written)


(***************************************************************************)
(* utils/data_generator.py: TriageDataGenerator                            *)
(* A raw draw is a float: pressures and heart rate are in tenths here,     *)
(* saturation and temperature in hundredths.  After rounding, pressures    *)
(* and heart rate are integers, saturation and temperature are in tenths   *)
(* (95.5 % is 955).  Age, sex and the symptom columns are not touched by   *)
(* _add_realistic_variations and are left out.                             *)
(***************************************************************************)

KeyError(message) == [error |-> "KeyError", message |-> message]

\* Series.round(decimals): numpy rounds a half to the even neighbour.  x is
\* in units of which ten make one unit of the result.
RoundHalfEven(x) ==
    LET q == x \div 10
        r == x % 10
    IN  IF r < 5 THEN q
        ELSE IF r > 5 THEN q + 1
        ELSE IF q % 2 = 0 THEN q ELSE q + 1

\* Series.clip(lower, upper)
Clip(x, lower, upper) == IF x < lower THEN lower ELSE IF x > upper THEN upper ELSE x

\* Mutant of add_realistic_variations: the diastolic pressure kept 40 below
\* the systolic one instead of 10.
add_realistic_variationsWide(row) ==
    LET ps == Clip(RoundHalfEven(row.pressao_sistolica), 60, 250)
        pdia == Clip(RoundHalfEven(row.pressao_diastolica), 30, 150)
    IN  [risk_level          |-> row.risk_level,
         pressao_sistolica   |-> ps,
         pressao_diastolica  |-> Min(pdia, ps - 40),
         frequencia_cardiaca |-> Clip(RoundHalfEven(row.frequencia_cardiaca), 30, 200),
         saturacao_oxigenio  |-> Clip(RoundHalfEven(row.saturacao_oxigenio), 600, 1000),
         temperatura         |-> Clip(RoundHalfEven(row.temperatura), 340, 430)]

\* TriageDataGenerator._add_realistic_variations on one row: round, clip,
\* then np.minimum(diastolic, systolic - 10)
add_realistic_variations(row) ==
    LET ps == Clip(RoundHalfEven(row.pressao_sistolica), 60, 250)
        pdia == Clip(RoundHalfEven(row.pressao_diastolica), 30, 150)
    IN  [risk_level          |-> row.risk_level,
         pressao_sistolica   |-> ps,
         pressao_diastolica  |-> Min(pdia, ps - 10),
         frequencia_cardiaca |-> Clip(RoundHalfEven(row.frequencia_cardiaca), 30, 200),
         saturacao_oxigenio  |-> Clip(RoundHalfEven(row.saturacao_oxigenio), 600, 1000),
         temperatura         |-> Clip(RoundHalfEven(row.temperatura), 340, 430)]

\* Bound: n_samples, the number of rows asked for.
MaxSamples == 1

\* _generate_patient_data: what the draws of one patient can give.  VERDE and
\* AMARELO draw every vital sign uniformly in the range of the profile (both
\* ends taken here); VERMELHO draws the pressures from a normal distribution
\* around either end of the range (any value, also below zero) or uniformly,
\* and the other vital signs uniformly.
RawRows ==
    [risk_level          : {"VERDE"},
     pressao_sistolica   : {1100, 1395},
     pressao_diastolica  : {700, 895},
     frequencia_cardiaca : {600},
     saturacao_oxigenio  : {9500, 9996},
     temperatura         : {3600}]
    \cup
    [risk_level          : {"AMARELO"},
     pressao_sistolica   : {900, 1695},
     pressao_diastolica  : {600, 995},
     frequencia_cardiaca : {500},
     saturacao_oxigenio  : {9000, 9690},
     temperatura         : {3700}]
    \cup
    [risk_level          : {"VERMELHO"},
     pressao_sistolica   : {-100, 595, 615, 1300, 2000, 2505, 2600},
     pressao_diastolica  : {100, 295, 515, 1200, 1505},
     frequencia_cardiaca : {400, 1495},
     saturacao_oxigenio  : {7000, 9490},
     temperatura         : {3500, 4195}]

\* TriageDataGenerator.generate_synthetic_data(n_samples) with the draws
\* raw: the rows of the frame after _add_realistic_variations.  A frame
\* without rows has no columns, and df['pressao_sistolica'] raises KeyError.
generate_synthetic_data(n_samples, raw) ==
    IF n_samples = 0
    THEN KeyError("pressao_sistolica")
    ELSE [rows |-> [i \in 1..n_samples |-> add_realistic_variations(raw[i])]]

\* A caller invokes generate_synthetic_data(n_samples).
GenerateSyntheticData(n_samples, raw) ==
    /\ df' = generate_synthetic_data(n_samples, raw)
    /\ UNCHANGED <<agentVars, personVars, callerVars, mlVars, serviceVars,
                   threadVars>>

GeneratorStart == df = NoValue

\* One call per behaviour: the generator keeps nothing between calls but the
\* state of the random source, which the draws stand for.
GenerateEntry ==
    /\ df = NoValue
    /\ \E n_samples \in 0..MaxSamples : \E raw \in [1..n_samples -> RawRows] :
           GenerateSyntheticData(n_samples, raw)

NextGenerator == GenerateEntry

(***************************************************************************)
(* Specifications                                                          *)
(***************************************************************************)

Init ==
    /\ AgentStart
    /\ PersonStart
    /\ CallersStart
    /\ ClassifierStart
    /\ ServiceStart
    /\ ThreadsStart
    /\ GeneratorStart

\* The triage agent.
Spec == Init /\ [][Next]_vars

\* One call of process_patient running to completion: process_patient is a
\* synchronous function whose stages are calls that return (no loop, no
\* wait), so a stage that can run does run.
SpecStages ==
    /\ Init
    /\ [][NextStages]_vars
    /\ WF_vars(Perceiving)
    /\ WF_vars(Deciding)
    /\ WF_vars(Acting)

\* The patient record.
SpecPerson == Init /\ [][NextPerson]_vars

\* Several callers of process_patient.
SpecCallers == Init /\ [][NextCallers]_vars

\* The learned classifier.
SpecClassifier == Init /\ [][NextClassifier]_vars

\* The emergency service over the in-memory store.
SpecService == Init /\ [][NextService]_vars

\* The same with the patients an emergency queue needs.
SpecQueue == Init /\ [][NextQueue]_vars

\* The two record stores, given the same calls.
SpecDAO == Init /\ [][NextDAO]_vars

\* Threads saving into one file.
SpecThreads == Init /\ [][NextThreads]_vars

\* The generator of synthetic data.
SpecGenerator == Init /\ [][NextGenerator]_vars


(***************************************************************************)
(* Properties of the triage agent (checked under Spec)                     *)
(***************************************************************************)

\* reason left its try block normally in this call: risk_score is set.
ReasonCompleted == risk_score # None

\* process_patient has returned.
ProcessPatientDone == call = "process_patient" /\ pc = "done"

\* C1: whenever reason completes normally, the category is VERMELHO exactly
\* when risk_score >= 7, AMARELO exactly when 3 <= risk_score < 7 and VERDE
\* exactly when risk_score < 3; exactly one category applies (6 is AMARELO,
\* 7 is VERMELHO).
C1_Thresholds ==
    ReasonCompleted =>
        LET s     == Val(risk_score)
            level == triage_result.risk_level
        IN  /\ level \in RiskLevel
            /\ (level = "VERMELHO") <=> (s >= 7)
            /\ (level = "AMARELO")  <=> (s >= 3 /\ s < 7)
            /\ (level = "VERDE")    <=> (s < 3)
            /\ (s = 6 => level = "AMARELO")
            /\ (s = 7 => level = "VERMELHO")

\* C1 witness: reason completed with a score of exactly 6 and answered AMARELO.
C1_Witness ==
    /\ ReasonCompleted
    /\ Val(risk_score) = 6
    /\ triage_result.risk_level = "AMARELO"

\* The score the claim C2 states, from the features alone.
C2_StatedScore(f) ==
      (IF Val(f["pressao_sistolica"]) < 90 \/ Val(f["pressao_sistolica"]) > 180
       THEN 3 ELSE 0)
    + (IF Val(f["frequencia_cardiaca"]) < 50 \/ Val(f["frequencia_cardiaca"]) > 120
       THEN 3 ELSE 0)
    + (IF Val(f["saturacao_oxigenio"]) < 90 THEN 4 ELSE 0)
    + (IF Val(f["temperatura"]) > 395 THEN 2 ELSE 0)
    + (IF f["dor_peito"] = 1 /\ Val(f["idade"]) > 50 THEN 4 ELSE 0)
    + (IF f["dificuldade_respiratoria"] = 1 THEN 3 ELSE 0)

C3_FailSafe(a) ==
    /\ a.classification = "Urgente"
    /\ a.risk_color = "AMARELO"
    /\ a.confidence = 500
    /\ a.reasoning = "Erro na avaliacao - requer avaliacao medica"
    /\ a.recommendations = <<"Consulta medica imediata">>

\* C3: when feature extraction fails, or the feature set is missing or invalid
\* so that the rule evaluator hits an internal error, process_patient returns
\* the fixed fail-safe result: Urgent (AMARELO), confidence 0.5, the reasoning
\* naming an evaluation error, and exactly one recommendation.
C3_FailSafeOnError ==
    (ProcessPatientDone /\ (PerceiveRaises(patient_data) \/ ReasonRaises(features)))
        => C3_FailSafe(action)

\* C3 witness: process_patient returned the fail-safe for an argument whose
\* attributes perceive could not read.
C3_Witness ==
    /\ ProcessPatientDone
    /\ patient_data = NotAPatientData
    /\ DOMAIN features = {}
    /\ C3_FailSafe(action)


\* The keys of the dict act and process_patient return.
ActionKeys ==
    {"classification", "risk_color", "confidence", "reasoning",
     "recommendations", "timestamp"}

C5_WellFormedResult ==
    /\ (call = "process_patient" /\ pc # "done") =>
           ENABLED (Perceiving \/ Deciding \/ Acting)
    /\ ProcessPatientDone =>
        /\ DOMAIN action = ActionKeys
        /\ action.risk_color \in {"VERMELHO", "AMARELO", "VERDE"}
        /\ action.classification \in {"Emergencia", "Urgente", "Nao Urgente"}
        /\ action.classification = RiskLevelValue(action.risk_color)
        /\ action.confidence >= 0
        /\ action.confidence <= 1000
        /\ Len(action.recommendations) > 0
    /\ \A a \in {ActExcept(now) : now \in Timestamps}
              \cup {ProcessPatientExcept(e, now) :
                       e \in {"perceive", "reason", "act"}, now \in Timestamps} :
        /\ DOMAIN a = ActionKeys
        /\ a.risk_color \in {"VERMELHO", "AMARELO", "VERDE"}
        /\ a.confidence >= 0
        /\ a.confidence <= 1000
        /\ Len(a.recommendations) > 0

\* C5 witness: process_patient returned from a call in which reason took its
\* except branch on a record whose attributes perceive could read.
C5_Witness ==
    /\ ProcessPatientDone
    /\ branches = {"reason"}
    /\ patient_data # NotAPatientData
    /\ Len(action.recommendations) > 0

\* C6: the confidence reason computes is min(0.95, 0.70 + 0.05 (s - 7)) for
\* Emergency, min(0.90, 0.60 + 0.075 (s - 3)) for Urgent and
\* min(0.85, 0.50 + 0.10 s) for Non-urgent; 7 gives 0.70, 3 gives 0.60 and 19
\* gives 0.95.
C6_Confidence ==
    ReasonCompleted =>
        LET s     == Val(risk_score)
            level == triage_result.risk_level
            c     == triage_result.confidence_score
        IN  /\ level = "VERMELHO" => c = Min(950, 700 + 50 * (s - 7))
            /\ level = "AMARELO"  => c = Min(900, 600 + 75 * (s - 3))
            /\ level = "VERDE"    => c = Min(850, 500 + 100 * s)
            /\ s = 7  => c = 700
            /\ s = 3  => c = 600
            /\ s = 19 => (c = 950 /\ c > 700)

\* C6 witness: every rule triggered, the score is 19 and the confidence is
\* capped at 0.95.
C6_Witness ==
    /\ ReasonCompleted
    /\ Val(risk_score) = 19
    /\ triage_result.confidence_score = 950

\* C7: whenever reason, act or process_patient answers from an except branch,
\* the risk level / risk colour it returns is AMARELO, never VERDE.
C7_NeverFailOpen ==
    /\ ("reason" \in branches /\ pc \in {"acting", "done"}) =>
           triage_result.risk_level = "AMARELO"
    /\ ("act" \in branches /\ pc = "done") => action.risk_color = "AMARELO"
    /\ ("process_patient" \in branches /\ pc = "done") =>
           action.risk_color = "AMARELO"
    /\ (branches # {} /\ pc = "done" /\ call # "reason") =>
           (action.risk_color = "AMARELO" /\ action.risk_color # "VERDE")
    /\ \A e \in {"perceive", "reason", "act"}, now \in Timestamps :
           ProcessPatientExcept(e, now).risk_color = "AMARELO"

\* C7 witness: act answered from its except branch.
C7_Witness ==
    /\ call = "act"
    /\ pc = "done"
    /\ "act" \in branches
    /\ action.risk_color = "AMARELO"


\* A numeric field of a PatientData lies in its physiological range.
C9_InRange(v, lo, hi) == IsNum(v) => (Val(v) >= lo /\ Val(v) <= hi)

\* C9 as stated: an out-of-range vital sign or age is rejected when the
\* PatientData is constructed, so reason never evaluates a record that holds
\* one.
C9_AsStated ==
    (call = "process_patient" /\ pc \in {"acting", "done"} /\ ReasonCompleted) =>
        /\ C9_InRange(patient_data.pressao_sistolica, 50, 250)
        /\ C9_InRange(patient_data.pressao_diastolica, 30, 150)
        /\ C9_InRange(patient_data.frequencia_cardiaca, 30, 200)
        /\ C9_InRange(patient_data.saturacao_oxigenio, 50, 100)
        /\ C9_InRange(patient_data.temperatura, 300, 450)
        /\ C9_InRange(patient_data.idade, 0, 120)

\* The factors the claim C14 lists, in its order, from the features alone.
C14_StatedFactors(f) ==
    (IF Val(f["pressao_sistolica"]) > 180 \/ Val(f["pressao_sistolica"]) < 90
     THEN <<"Pressao arterial critica">> ELSE <<>>)
    \o (IF Val(f["frequencia_cardiaca"]) > 120 \/ Val(f["frequencia_cardiaca"]) < 50
        THEN <<"Frequencia cardiaca alterada">> ELSE <<>>)
    \o (IF Val(f["saturacao_oxigenio"]) < 90
        THEN <<"Saturacao de oxigenio baixa">> ELSE <<>>)
    \o (IF Val(f["temperatura"]) > 395 THEN <<"Febre alta">> ELSE <<>>)
    \o (IF f["dor_peito"] = 1 /\ Val(f["idade"]) > 50
        THEN <<"Dor no peito em paciente > 50 anos">> ELSE <<>>)
    \o (IF f["dificuldade_respiratoria"] = 1
        THEN <<"Dificuldade respiratoria">> ELSE <<>>)

\* A non-empty list as displayed: its items separated by "; ".
RECURSIVE C14_Displayed(_)
C14_Displayed(xs) ==
    IF Len(xs) = 1 THEN Head(xs) ELSE Head(xs) \o "; " \o C14_Displayed(Tail(xs))

\* C14: when reason completes, its reasoning is the literal 'Sinais vitais
\* estaveis' exactly when no rule triggered (risk_score = 0), and then the
\* category is Non-urgent with a confidence strictly between 0 and 1;
\* otherwise it is the triggered factors, one per triggered rule, in the
\* order blood pressure, heart rate, saturation, fever, chest pain over 50,
\* breathing difficulty, joined with "; ".  It is never empty, and the
\* fail-safe of the except branch never carries the literal.
C14_Reasoning ==
    /\ ReasonCompleted =>
        LET fs == C14_StatedFactors(features)
        IN  /\ (triage_result.reasoning = "Sinais vitais estaveis")
                   <=> (Val(risk_score) = 0)
            /\ (Val(risk_score) = 0) <=> (fs = <<>>)
            /\ Val(risk_score) = 0 =>
                   /\ triage_result.risk_level = "VERDE"
                   /\ triage_result.confidence_score > 0
                   /\ triage_result.confidence_score < 1000
            /\ Val(risk_score) # 0 =>
                   triage_result.reasoning = C14_Displayed(fs)
            /\ triage_result.reasoning # ""
    /\ ("reason" \in branches /\ pc \in {"acting", "done"}) =>
        /\ triage_result.reasoning # ""
        /\ triage_result.reasoning # "Sinais vitais estaveis"

\* C14 witness: reason completed with the first, fourth and sixth rule
\* triggered and named them in that order.
C14_Witness ==
    /\ ReasonCompleted
    /\ Val(risk_score) = 8
    /\ triage_result.reasoning =
           "Pressao arterial critica; Febre alta; Dificuldade respiratoria"

\* The list the claim C15 gives for a category.
C15_StatedList(level) ==
    CASE level = "VERMELHO" ->
             <<"Atendimento medico IMEDIATO", "Preparar sala de emergencia",
               "Monitorizacao continua", "Acesso venoso imediato">>
      [] level = "AMARELO" ->
             <<"Atendimento em ate 1 hora", "Reavaliacao em 30 minutos",
               "Monitorizacao periodica">>
      [] level = "VERDE" ->
             <<"Atendimento em ate 4 horas", "Orientacoes gerais",
               "Reavaliacao se piora">>

\* C15: the recommendation list of a normally computed result depends on the
\* category only: exactly the four Emergency items, the three Urgent items or
\* the three Non-urgent items, in order, whatever factors triggered; it is
\* never empty, and process_patient returns it unchanged.
C15_FixedPerCategory ==
    ReasonCompleted =>
        /\ triage_result.recommendations = C15_StatedList(triage_result.risk_level)
        /\ Len(triage_result.recommendations)
               = (IF triage_result.risk_level = "VERMELHO" THEN 4 ELSE 3)
        /\ triage_result.recommendations # <<>>
        /\ ProcessPatientDone =>
               action.recommendations = C15_StatedList(action.risk_color)

\* C15 witness: process_patient returned the three Urgent items for a record
\* whose only triggered factor is chest pain over 50.
C15_Witness ==
    /\ ProcessPatientDone
    /\ ReasonCompleted
    /\ triage_result.reasoning = "Dor no peito em paciente > 50 anos"
    /\ action.risk_color = "AMARELO"
    /\ Len(action.recommendations) = 3
    /\ action.recommendations[1] = "Atendimento em ate 1 hora"

\* perceive has returned in a call that got a PatientData record.
C18_Perceived ==
    /\ call = "process_patient"
    /\ pc \in {"deciding", "acting", "done"}
    /\ patient_data # NotAPatientData

C18_Vitals ==
    {"pressao_sistolica", "pressao_diastolica", "frequencia_cardiaca",
     "saturacao_oxigenio", "temperatura", "idade"}

C18_Symptoms ==
    {"dor_peito", "dificuldade_respiratoria", "febre", "tontura", "vomito",
     "dor_abdominal"}

\* What C18 says of the mapping perceive returned.
C18_Mapping ==
    C18_Perceived =>
        /\ DOMAIN features = C18_Vitals \cup {"sexo_M"} \cup C18_Symptoms
        /\ Cardinality(DOMAIN features) = 13
        /\ \A k \in C18_Vitals : features[k] = patient_data[k]
        /\ features["sexo_M"] = 1 <=> patient_data.sexo = "M"
        /\ features["sexo_M"] = 0 <=> patient_data.sexo # "M"
        /\ \A k \in C18_Symptoms :
               /\ features[k] = 1 <=> patient_data[k]
               /\ features[k] = 0 <=> ~patient_data[k]

\* C18: for every PatientData record perceive returns a mapping with exactly
\* the 13 fixed keys, in which the vitals and the age equal the record's
\* values, sexo_M is 1 exactly when sexo is 'M' and 0 otherwise, and every
\* symptom entry is 1 when the flag is true and 0 otherwise; no step of the
\* call modifies the record.
C18_PerceiveMapping ==
    /\ []C18_Mapping
    /\ [][call = "process_patient" => patient_data' = patient_data]_vars

\* C18 witness: perceive returned sexo_M = 0 for a record of sex 'O' that has
\* no age and whose only symptom is fever.
C18_Witness ==
    /\ C18_Perceived
    /\ patient_data.sexo = "O"
    /\ features["sexo_M"] = 0
    /\ patient_data.idade = None
    /\ features["idade"] = None
    /\ patient_data.febre
    /\ features["febre"] = 1
    /\ features["dor_peito"] = 0

\* The stage that follows a stage of process_patient.
C19_Following(stage) ==
    CASE stage = "idle"       -> "perceiving"
      [] stage = "perceiving" -> "deciding"
      [] stage = "deciding"   -> "acting"
      [] stage = "acting"     -> "done"
      [] OTHER                -> "none"

\* A stage of the call failed: perceive or reason took its except branch.
C19_StageFailed ==
    /\ call = "process_patient"
    /\ \/ pc = "deciding" /\ "perceive" \in branches
       \/ pc = "acting" /\ "reason" \in branches

\* C19: every invocation of process_patient runs Perceiving, Deciding and
\* Acting in that order, each at most once (the position of the call only
\* ever moves to the following stage), and eventually reaches Done with a
\* result; a failure in Perceiving or Deciding still leads to Acting and to
\* Done, never to the handler of process_patient.
C19_StagesInOrder ==
    /\ [][call' = "process_patient" =>
             (pc' # pc => pc' = C19_Following(pc))]_vars
    /\ (call = "process_patient") ~> (ProcessPatientDone /\ action # NoValue)
    /\ C19_StageFailed ~> (call = "process_patient" /\ pc = "acting")
    /\ C19_StageFailed ~>
           (ProcessPatientDone /\ DOMAIN action = ActionKeys
               /\ "process_patient" \notin branches)

\* C19 witness: a call whose Perceiving and Deciding both failed reached Done
\* through Acting, with the result of act.
C19_Witness ==
    /\ ProcessPatientDone
    /\ branches = {"perceive", "reason"}
    /\ action.classification = "Urgente"
    /\ action.timestamp \in Timestamps

\* Two scores fall in the same category bucket.
C13_SameBucket(s1, s2) ==
    \/ s1 < 3 /\ s2 < 3
    \/ s1 >= 3 /\ s1 < 7 /\ s2 >= 3 /\ s2 < 7
    \/ s1 >= 7 /\ s2 >= 7

\* C13: the confidence reason computed for its risk_score s2 is greater than
\* or equal to the confidence of every score s1 <= s2 of the same category
\* bucket (both < 3, both in [3,7), or both >= 7).
C13_Monotonic ==
    ReasonCompleted =>
        \A s1 \in 0..Val(risk_score) :
            C13_SameBucket(s1, Val(risk_score)) =>
                ConfidenceOf(s1) <= triage_result.confidence_score

\* C13 witness: reason computed 0.825 for a score of 6, above the 0.6 of the
\* score 3 of the same bucket, and the next score, 7, has only 0.7.
C13_Witness ==
    /\ ReasonCompleted
    /\ Val(risk_score) = 6
    /\ triage_result.confidence_score = 825
    /\ C13_SameBucket(3, 6)
    /\ ConfidenceOf(3) = 600
    /\ ~C13_SameBucket(6, 7)
    /\ ConfidenceOf(7) = 700

(***************************************************************************)
(* Properties of the patient record (checked under SpecPerson)             *)
(***************************************************************************)

C8_Between(x, lo, hi) == x >= lo /\ x <= hi

\* C8: VitalSigns(...) succeeds exactly when systolic is in [50,250],
\* diastolic in [30,150], heart rate in [30,200], saturation in [50,100] and
\* temperature in [30,45], bounds included, and raises ValueError otherwise;
\* Person(...) succeeds exactly when age is in [0,120] and raises otherwise.
C8_Validation ==
    /\ vs_args # NoValue =>
        /\ ~IsError(vs_out) <=>
               /\ C8_Between(vs_args.pressao_sistolica, 50, 250)
               /\ C8_Between(vs_args.pressao_diastolica, 30, 150)
               /\ C8_Between(vs_args.frequencia_cardiaca, 30, 200)
               /\ C8_Between(vs_args.saturacao_oxigenio, 50, 100)
               /\ C8_Between(vs_args.temperatura, 300, 450)
        /\ IsError(vs_out) => vs_out.error = "ValueError"
        /\ ~IsError(vs_out) => vs_out = vs_args
    /\ person_args # NoValue =>
        /\ ~IsError(person) <=> C8_Between(person_args.idade, 0, 120)
        /\ IsError(person) => person.error = "ValueError"
        /\ ~IsError(person) => person.idade = person_args.idade

\* C8 witness: VitalSigns was constructed with every field on an end of its
\* range.
C8_Witness ==
    /\ vs_args # NoValue
    /\ ~IsError(vs_out)
    /\ vs_out.pressao_sistolica = 250
    /\ vs_out.pressao_diastolica = 30
    /\ vs_out.frequencia_cardiaca = 200
    /\ vs_out.saturacao_oxigenio = 100
    /\ vs_out.temperatura = 450

\* The red flags the claim C10 names.
C10_RedFlagNames ==
    {"dor_peito", "dificuldade_respiratoria", "convulsoes", "sangramento_ativo",
     "perda_consciencia", "dor_cabeca_intensa"}

\* The unclamped total the claim C10 states, from the person's fields.
C10_StatedTotal(p) ==
    LET v     == p.sinais_vitais
        flags == Cardinality({n \in C10_RedFlagNames : p.sintomas[n]})
    IN    (IF p.idade > 65 THEN 2 ELSE IF p.idade > 50 THEN 1 ELSE 0)
        + (IF v.pressao_sistolica < 90 \/ v.pressao_sistolica > 180 THEN 2 ELSE 0)
        + (IF v.saturacao_oxigenio < 90 THEN 2 ELSE 0)
        + (IF v.frequencia_cardiaca < 50 \/ v.frequencia_cardiaca > 120 THEN 1 ELSE 0)
        + (IF v.temperatura > 390 THEN 1 ELSE 0)
        + (IF flags >= 3 THEN 3 ELSE flags)
        + (IF p.doencas_cronicas \cap {"Asma", "INFARTO"} # {} THEN 1 ELSE 0)

C11_Total(p) ==
    AgePoints(p) + VitalPoints(p.sinais_vitais) + SymptomPoints(p)
    + HistoryPoints(p)

\* The score of the critical patient has been computed.
C11_ScenarioBScored == score # NoScore /\ person_args = ScenarioB

\* C11 as stated: for the Scenario B patient the severity score is 10, from an
\* unclamped total of 11 in which chest pain, breathing difficulty, dizziness
\* and vomiting count as 4 red-flag symptoms contributing +3.
C11_AsStated ==
    C11_ScenarioBScored =>
        /\ Val(score) = 10
        /\ C11_Total(person) = 11
        /\ Len(get_red_flag_symptoms(person.sintomas)) = 4
        /\ SymptomPoints(person) = 3

\* C11 amended: for the Scenario B patient the severity score is 10, which is
\* the unclamped total itself (2 age, 2 systolic, 2 saturation, 1 heart rate,
\* 1 temperature, 2 symptoms): only chest pain and breathing difficulty are
\* red flags, so the symptoms contribute +2; dizziness, vomiting and fever
\* are no red flags.
C11_ScenarioBScore ==
    C11_ScenarioBScored =>
        /\ Val(score) = 10
        /\ C11_Total(person) = 10
        /\ AgePoints(person) = 2
        /\ VitalPoints(person.sinais_vitais) = 6
        /\ HistoryPoints(person) = 0
        /\ get_red_flag_symptoms(person.sintomas)
               = <<"Dor no peito", "Dificuldade respiratoria">>
        /\ SymptomPoints(person) = 2

\* C11 witness: the score of the Scenario B patient was computed, with
\* dizziness and vomiting among the symptoms of the record.
C11_Witness ==
    /\ C11_ScenarioBScored
    /\ person.idade = 70
    /\ person.sinais_vitais.pressao_sistolica = 200
    /\ person.sintomas["tontura"]
    /\ person.sintomas["vomito"]
    /\ Val(score) = 10
(***************************************************************************)
(* Properties of concurrent and repeated calls (checked under SpecCallers) *)
(***************************************************************************)

\* Caller c has its result.
CallerDone(c) == c_pc[c] = "done"

\* The parts of a result the claims compare: everything but the timestamp.
Verdict(a) ==
    <<a.classification, a.risk_color, a.confidence, a.reasoning,
      a.recommendations>>

\* C12: process_patient is deterministic: any two calls on the same record,
\* on the same TriageAgent instance or on different ones, whatever the other
\* calls processed before, between or during them, return the same category,
\* confidence, reasoning and recommendations; only the timestamp may differ.
C12_Deterministic ==
    \A c, d \in Callers :
        (CallerDone(c) /\ CallerDone(d) /\ c_patient_data[c] = c_patient_data[d])
            => Verdict(c_action[c]) = Verdict(c_action[d])

\* C12 witness: two calls on one instance got the critical patient, a call on
\* another instance got the stable patient, and the results of the first two
\* differ in their timestamp only.
C12_Witness ==
    /\ \A c \in 1..3 : CallerDone(c)
    /\ c_patient_data[1] = PacienteVermelho
    /\ c_patient_data[3] = PacienteVermelho
    /\ c_patient_data[2] = PacienteVerde
    /\ AgentOf(1) = AgentOf(3)
    /\ AgentOf(1) # AgentOf(2)
    /\ c_action[1].timestamp # c_action[3].timestamp
    /\ c_action[1].risk_color = "VERMELHO"
    /\ c_action[2].risk_color = "VERDE"
    /\ Verdict(c_action[1]) = Verdict(c_action[3])
\* The conditional recommendations of get_recommendations.
C16_Conditional ==
    {"ECG imediato", "Raio-X de torax", "Medidas antitermicas",
     "Controle pressorico urgente", "Suporte ventilatorio"}

\* How many items the base list of a category has.
C16_BaseLen(level) == IF level = "VERMELHO" THEN 4 ELSE 3

\* The conditional recommendations that apply to a person, as a set.
C16_Applicable(p) ==
    {r \in C16_Conditional :
        \/ r = "ECG imediato" /\ p.sintomas["dor_peito"]
        \/ r = "Raio-X de torax" /\ p.sintomas["dificuldade_respiratoria"]
        \/ /\ p.sinais_vitais # NoVitals
           /\ \/ r = "Medidas antitermicas" /\ p.sinais_vitais.temperatura > 390
              \/ r = "Controle pressorico urgente"
                     /\ p.sinais_vitais.pressao_sistolica > 180
              \/ r = "Suporte ventilatorio"
                     /\ p.sinais_vitais.saturacao_oxigenio < 90}

\* C16 as stated: for every risk category the result of get_recommendations
\* starts with the base list of that category (four items for Emergency,
\* three for Urgent and for Non-urgent), none of them a conditional
\* recommendation, and the conditional recommendations that apply (ECG iff
\* chest pain, chest X-ray iff breathing difficulty, antipyretic measures iff
\* temperature > 39.0, pressure control iff systolic > 180, ventilatory
\* support iff saturation < 90) follow it, each once.
C16_AsStated ==
    (recs # NoRecs /\ person.nivel_risco \in RiskLevel) =>
        LET n == C16_BaseLen(person.nivel_risco)
            r == recs[1]
        IN  /\ Len(r) = n + Cardinality(C16_Applicable(person))
            /\ \A i \in 1..Len(r) : (i <= n) <=> (r[i] \notin C16_Conditional)
            /\ {r[i] : i \in 1..Len(r)} \cap C16_Conditional
                   = C16_Applicable(person)
\* The fail-safe answer, as a call running alone returns it.
C20_FailSafe ==
    <<"Urgente", "AMARELO", 500, "Erro na avaliacao - requer avaliacao medica",
      <<"Consulta medica imediata">> >>

\* What a call on record p returns when it runs alone.
C20_Alone(p) ==
    CASE p = PacienteVerde ->
             <<"Nao Urgente", "VERDE", 500, "Sinais vitais estaveis",
               <<"Atendimento em ate 4 horas", "Orientacoes gerais",
                 "Reavaliacao se piora">> >>
      [] p = PacienteVermelho ->
             <<"Emergencia", "VERMELHO", 950,
               "Pressao arterial critica; Frequencia cardiaca alterada; "
                   \o "Saturacao de oxigenio baixa; Febre alta; "
                   \o "Dor no peito em paciente > 50 anos; "
                   \o "Dificuldade respiratoria",
               <<"Atendimento medico IMEDIATO", "Preparar sala de emergencia",
                 "Monitorizacao continua", "Acesso venoso imediato">> >>
      [] p = NotAPatientData  -> C20_FailSafe

\* C20: calls to process_patient share no mutable state: under every
\* interleaving of the perceive / reason / act steps of the callers, those
\* sharing one TriageAgent included, each caller gets the category,
\* confidence, reasoning and recommendations its call gives when it runs
\* alone, and the fields model and is_trained of every agent stay as
\* __init__ set them.
C20_Isolated ==
    /\ \A c \in Callers :
           CallerDone(c) =>
               /\ Verdict(c_action[c]) = C20_Alone(c_patient_data[c])
               /\ Verdict(c_action[c])
                      = Verdict(act(reason(perceive(c_patient_data[c])), 0))
    /\ \A a \in Agents : agents[a] = [model |-> "None", is_trained |-> FALSE]

\* C20 witness: three calls are in flight at once, two of them on the shared
\* agent: the first has returned the Emergency result of the critical
\* patient while the second, on the stable patient, is about to decide and
\* the third, on an unreadable object, is about to act.
C20_Witness ==
    /\ CallerDone(1)
    /\ c_patient_data[1] = PacienteVermelho
    /\ c_action[1].risk_color = "VERMELHO"
    /\ c_pc[2] = "deciding"
    /\ c_patient_data[2] = PacienteVerde
    /\ c_pc[3] = "acting"
    /\ c_patient_data[3] = NotAPatientData
    /\ AgentOf(1) = AgentOf(3)

(***************************************************************************)
(* Properties of the learned classifier (checked under SpecClassifier)     *)
(***************************************************************************)

\* C17 as stated: predict on a classifier that is not trained or loaded
\* (is_trained = False) fails with an error the caller sees; it never returns
\* a value.
C17_AsStated ==
    (ml_out # NoValue /\ ~ml.is_trained) => IsError(ml_out)

(***************************************************************************)
(* Properties of the emergency service (checked under SpecService)         *)
(***************************************************************************)

\* The rank and the estimated wait of a risk level.
C21_Rank(nivel_risco) ==
    CASE nivel_risco = "VERMELHO" -> <<1, Num(0)>>
      [] nivel_risco = "AMARELO"  -> <<2, Num(60)>>
      [] nivel_risco = "VERDE"    -> <<3, Num(240)>>

\* C21: after any sequence of Person construction, add_vital_signs,
\* add_symptoms and save_emergency_patient, every Person whose risk level is
\* set has the rank of that level: VERMELHO prioridade 1 and wait 0, AMARELO
\* prioridade 2 and wait 60, VERDE prioridade 3 and wait 240.
C21_AsStated ==
    \A id \in DOMAIN heap :
        heap[id].nivel_risco # NoLevel =>
            /\ heap[id].prioridade = C21_Rank(heap[id].nivel_risco)[1]
            /\ heap[id].tempo_espera_estimado = C21_Rank(heap[id].nivel_risco)[2]

(***************************************************************************)
(* Properties of the record stores (checked under SpecDAO)                 *)
(***************************************************************************)

\* C22: the in-memory and the file-backed store are interchangeable: the
\* same save, update, delete, get_by_id, get_all and get_by_risk_level calls
\* made on both return the same booleans and the same persons, equal in
\* every field.
C22_AsStated ==
    (svc # NoValue /\ svc.op # "Person") => svc.ret.memory = svc.ret.file

(***************************************************************************)
(* Properties of the data generator (checked under SpecGenerator)          *)
(***************************************************************************)

\* C23: every row generate_synthetic_data produces has systolic pressure in
\* [60,250], oxygen saturation in [60,100], diastolic pressure in [30,150],
\* and diastolic pressure at least 10 below the systolic one: the final
\* min(diastolic, systolic - 10) never pushes diastolic out of its range.
C23_RowsInRange ==
    (df # NoValue /\ ~IsError(df)) =>
        \A i \in DOMAIN df.rows :
            LET row == df.rows[i]
            IN  /\ row.pressao_sistolica >= 60 /\ row.pressao_sistolica <= 250
                /\ row.saturacao_oxigenio >= 600 /\ row.saturacao_oxigenio <= 1000
                /\ row.pressao_diastolica >= 30 /\ row.pressao_diastolica <= 150
                /\ row.pressao_diastolica < row.pressao_sistolica
                /\ row.pressao_diastolica <= row.pressao_sistolica - 10

\* A row whose systolic pressure was clipped up to 60 and whose diastolic
\* pressure the last step lowered to 50 (no draw here rounds to 50).
C23_Witness ==
    /\ df # NoValue
    /\ ~IsError(df)
    /\ \E i \in DOMAIN df.rows :
          /\ df.rows[i].pressao_sistolica = 60
          /\ df.rows[i].pressao_diastolica = 50

(***************************************************************************)
(* Properties of the emergency queue (checked under SpecQueue)             *)
(***************************************************************************)

\* C24: get_emergency_queue returns exactly the stored persons whose risk
\* level is VERMELHO, the highest severity score first, and among persons
\* with equal score the one who arrived earlier first.
C24_AsStated ==
    (svc # NoValue /\ svc.op = "get_emergency_queue") =>
        LET queue == svc.ret
        IN  /\ {queue[i] : i \in DOMAIN queue}
                 = {heap[id] : id \in {x \in DOMAIN heap :
                                         /\ Has(dao_data, x)
                                         /\ heap[x].nivel_risco = "VERMELHO"}}
            /\ \A i, j \in DOMAIN queue :
                  i < j =>
                    /\ queue[i].id # queue[j].id
                    /\ \/ calculate_risk_score(queue[i]) > calculate_risk_score(queue[j])
                       \/ /\ calculate_risk_score(queue[i]) = calculate_risk_score(queue[j])
                          /\ queue[i].data_chegada <= queue[j].data_chegada

\* The vital signs and the symptom flags the last call was given.
C25_Given == VitalSigns(svc.args[1], svc.args[2], svc.args[3], svc.args[4], svc.args[5])

C25_FlagsSet ==
    \A n \in DOMAIN svc.args \cap SymptomNames :
        heap[svc.arg].sintomas[n] = svc.args[n]

\* The person of the last call is as an unsaved person is left: the vital
\* signs or the flags given are on it, and it is VERMELHO if
\* is_emergency_case holds.
C25_PersonChanged ==
    /\ svc.op = "add_vital_signs" => heap[svc.arg].sinais_vitais = C25_Given
    /\ svc.op = "add_symptoms" => C25_FlagsSet
    /\ is_emergency_case(heap[svc.arg]) => heap[svc.arg].nivel_risco = "VERMELHO"

C25_Call == svc # NoValue /\ svc.op \in {"add_vital_signs", "add_symptoms"}

\* C25 as stated: add_vital_signs and add_symptoms return True exactly when
\* the person's id is already in the store; on a person that has not been
\* saved they return False and leave the store unchanged, yet the person's
\* vital signs / symptom flags (and, if is_emergency_case holds, its risk
\* level) have been changed.
C25_AsStated ==
    C25_Call =>
        /\ svc.ret = Has(dao_data, svc.arg)
        /\ ~Has(dao_data, svc.arg) => C25_PersonChanged

\* The vital signs given to add_vital_signs are valid.
C25_Valid == svc.op = "add_vital_signs" => ~IsError(C25_Given)

C25_Returned ==
    C25_Call =>
        /\ svc.ret = (C25_Valid /\ Has(dao_data, svc.arg))
        /\ (~Has(dao_data, svc.arg) /\ C25_Valid) => C25_PersonChanged

\* C25 (amended): add_symptoms returns True exactly when the person's id is
\* already in the store, add_vital_signs exactly when moreover the vital
\* signs given are valid; neither ever changes the store; on a person that
\* has not been saved they return False, yet (for add_vital_signs: if the
\* vital signs given are valid) the person's vital signs / symptom flags
\* and, if is_emergency_case holds, its risk level have been changed.
C25_ReturnsStored ==
    /\ []C25_Returned
    /\ [][C25_Call' => dao_data' = dao_data]_vars

\* add_vital_signs with valid vital signs of an emergency on a person that
\* was constructed without a level and never saved: False is returned, the
\* store is empty, the person has the vital signs and is VERMELHO.
C25_Witness ==
    /\ C25_Call
    /\ svc.op = "add_vital_signs"
    /\ C25_Valid
    /\ svc.ret = FALSE
    /\ dao_data = <<>>
    /\ heap[svc.arg].sinais_vitais = C25_Given
    /\ heap[svc.arg].nivel_risco = "VERMELHO"
    /\ heap[svc.arg].prioridade = 0

(***************************************************************************)
(* Properties of concurrent saves (checked under SpecThreads)              *)
(***************************************************************************)

\* C26: when FilePersonDAO.save calls for persons with different ids run
\* concurrently, their load and write steps interleaved in any order, and
\* two of them have returned True, both persons are retrievable with
\* get_by_id: no save is lost.
C26_AsStated ==
    \A t1, t2 \in Threads :
        (t1 # t2 /\ t_ret[t1] = Num(TRUE) /\ t_ret[t2] = Num(TRUE)) =>
            /\ FileGetById(file, ThreadPerson(t1).id) # NoPerson
            /\ FileGetById(file, ThreadPerson(t2).id) # NoPerson

(***************************************************************************)
(* The two emergency criteria compared (checked under Spec)                *)
(***************************************************************************)

\* The vital signs and symptom flags of a feature dict as the fields
\* Person.is_emergency_case reads.
C27_SamePerson ==
    [sinais_vitais |->
        [pressao_sistolica   |-> Val(features["pressao_sistolica"]),
         frequencia_cardiaca |-> Val(features["frequencia_cardiaca"]),
         saturacao_oxigenio  |-> Val(features["saturacao_oxigenio"]),
         temperatura         |-> Val(features["temperatura"])],
     sintomas |->
        Symptoms({n \in SymptomNames \cap DOMAIN features : features[n] # 0})]

\* reason has evaluated the features and counted 7 points or more
\* (RiskLevel.VERMELHO).
C27_Emergency ==
    /\ features # NoValue
    /\ IsNum(risk_score)
    /\ Val(risk_score) >= 7

\* C27: for every combination of vitals, age and symptoms for which the
\* rule-based evaluator returns Emergency (risk_score >= 7),
\* Person.is_emergency_case evaluated on the same vitals and symptoms returns
\* True.
C27_Agree == C27_Emergency => is_emergency_case(C27_SamePerson)

\* The agent reached Emergency from the symptoms alone (chest pain over 50
\* and breathing difficulty) with every vital sign inside Person's limits.
C27_Witness ==
    /\ C27_Emergency
    /\ triage_result.risk_level = "VERMELHO"
    /\ ~is_emergency_caseVitalsOnly(C27_SamePerson)
    /\ is_emergency_case(C27_SamePerson)

(***************************************************************************)
(* Properties of the emergency service, continued (checked under           *)
(* SpecService)                                                            *)
(***************************************************************************)

\* The last call was add_vital_signs with a vital sign outside its valid
\* range.
C28_InvalidCall ==
    /\ svc # NoValue
    /\ svc.op = "add_vital_signs"
    /\ IsError(VitalSigns(svc.args[1], svc.args[2], svc.args[3],
                          svc.args[4], svc.args[5]))

\* C28: add_vital_signs called with any vital sign outside its valid range
\* returns False and leaves the person's previous sinais_vitais, its
\* nivel_risco and the store contents unchanged; the validation error does
\* not reach the caller.
C28_Rejected ==
    [][C28_InvalidCall' =>
        /\ svc'.ret = FALSE
        /\ heap'[svc'.arg].sinais_vitais = heap[svc'.arg].sinais_vitais
        /\ heap'[svc'.arg].nivel_risco = heap[svc'.arg].nivel_risco
        /\ heap' = heap
        /\ dao_data' = dao_data]_vars

\* Invalid vital signs were refused for a stored person that has vital signs
\* from an earlier call.
C28_Witness ==
    /\ C28_InvalidCall
    /\ svc.ret = FALSE
    /\ Has(dao_data, svc.arg)
    /\ heap[svc.arg].sinais_vitais # NoVitals

\* C29: emergency status is sticky in the service layer: add_vital_signs,
\* add_symptoms and save_emergency_patient only ever set a person's
\* nivel_risco to VERMELHO or leave it as it is, so a person that is
\* VERMELHO never moves to AMARELO or VERDE, even when the new vitals and
\* symptoms no longer satisfy is_emergency_case.
C29_Sticky ==
    [][\A id \in DOMAIN heap :
          \/ heap'[id].nivel_risco = heap[id].nivel_risco
          \/ heap'[id].nivel_risco = "VERMELHO"]_vars

\* A person constructed as VERDE (its prioridade still says so) that the
\* service made VERMELHO is still VERMELHO after add_vital_signs stored
\* vital signs with which is_emergency_case no longer holds.
C29_Witness ==
    /\ svc # NoValue
    /\ svc.op = "add_vital_signs"
    /\ svc.ret = TRUE
    /\ heap[svc.arg].prioridade = PrioridadeOf("VERDE")
    /\ heap[svc.arg].nivel_risco = "VERMELHO"
    /\ heap[svc.arg].sinais_vitais # NoVitals
    /\ ~is_emergency_case(heap[svc.arg])

\* Without recorded vital signs the severity score is 0 and the person is no
\* emergency case.
C30_NoVitals ==
    \A id \in DOMAIN heap :
        heap[id].sinais_vitais = NoVitals =>
            /\ calculate_risk_score(heap[id]) = 0
            /\ ~is_emergency_case(heap[id])

\* Person id has no vital signs recorded and its severity score leaves 0 in
\* this step.
C30_Scored(id) ==
    /\ heap[id].sinais_vitais = NoVitals
    /\ calculate_risk_score(heap'[id]) # 0

\* C30 as stated: for a Person without recorded vital signs,
\* calculate_risk_score returns 0 and is_emergency_case returns False
\* whatever the age, red-flag symptoms and chronic history are; hence a
\* patient created by create_emergency_patient has severity score 0 until
\* add_vital_signs succeeds (returns True).
C30_AsStated ==
    /\ []C30_NoVitals
    /\ [][\A id \in DOMAIN heap :
            C30_Scored(id) =>
                /\ svc'.op = "add_vital_signs"
                /\ svc'.arg = id
                /\ svc'.ret = TRUE]_vars

\* C30 (amended): for a Person without recorded vital signs,
\* calculate_risk_score returns 0 and is_emergency_case returns False
\* whatever the age, red-flag symptoms and chronic history are; hence a
\* patient created by create_emergency_patient has severity score 0 until
\* add_vital_signs is called for it with valid vital signs, which it records
\* on the person even when it returns False because the person is not in the
\* store.
C30_ZeroUntilVitals ==
    /\ []C30_NoVitals
    /\ [][\A id \in DOMAIN heap :
            C30_Scored(id) =>
                /\ svc'.op = "add_vital_signs"
                /\ svc'.arg = id
                /\ ~IsError(VitalSigns(svc'.args[1], svc'.args[2], svc'.args[3],
                                       svc'.args[4], svc'.args[5]))]_vars

\* A 70 year old with a cardiac history and chest pain, without vital signs
\* after an add_vital_signs call that was refused: the score is 0.
C30_Witness ==
    /\ svc # NoValue
    /\ svc.op = "add_vital_signs"
    /\ svc.ret = FALSE
    /\ heap[svc.arg].sinais_vitais = NoVitals
    /\ heap[svc.arg].idade > 65
    /\ has_cardiac_history(heap[svc.arg].doencas_cronicas)
    /\ Len(get_red_flag_symptoms(heap[svc.arg].sintomas)) > 0
    /\ calculate_risk_score(heap[svc.arg]) = 0

====
